---- MODULE Spec2Model ----
(***************************************************************************)
(* Skill package import pipeline of lobehub: SkillParser, GitHub resolver, *)
(* SkillResourceService and SkillImporter, with the record store, the file *)
(* registry and the object storage they talk to.                           *)
(*                                                                         *)
(* Text is modelled character by character: a string is a sequence of      *)
(* one-character strings, so that startsWith, includes, slice, split and   *)
(* the regular expressions of the source act on what they act on in the    *)
(* program.                                                                *)
(***************************************************************************)
EXTENDS Integers, Sequences, FiniteSets, TLC

(***************************************************************************)
(* Bounds of the model.                                                    *)
(***************************************************************************)
MaxCalls == 2
MaxClock == 1
MaxPaths == 3
MaxInvocations == 3

(***************************************************************************)
(* String helpers (JavaScript String.prototype).                           *)
(***************************************************************************)
Slice(s, from) == SubSeq(s, from, Len(s))

StartsWith(s, p) == Len(p) <= Len(s) /\ SubSeq(s, 1, Len(p)) = p

EndsWith(s, p) == Len(p) <= Len(s) /\ SubSeq(s, Len(s) - Len(p) + 1, Len(s)) = p

Includes(s, p) == \E i \in 1..(Len(s) - Len(p) + 1) : SubSeq(s, i, i + Len(p) - 1) = p

\* 1-based position of the first c in s, 0 when there is none (indexOf + 1).
IndexOf(s, c) ==
  IF \E i \in 1..Len(s) : s[i] = c
  THEN CHOOSE i \in 1..Len(s) : s[i] = c /\ \A j \in 1..(i - 1) : s[j] # c
  ELSE 0

\* 1-based position of the last c in s, 0 when there is none (lastIndexOf + 1).
LastIndexOf(s, c) ==
  IF \E i \in 1..Len(s) : s[i] = c
  THEN CHOOSE i \in 1..Len(s) : s[i] = c /\ \A j \in (i + 1)..Len(s) : s[j] # c
  ELSE 0

RECURSIVE Split(_, _)
Split(s, c) ==
  LET i == IndexOf(s, c)
  IN IF i = 0 THEN <<s>> ELSE <<SubSeq(s, 1, i - 1)>> \o Split(Slice(s, i + 1), c)

RECURSIVE ReplaceAll(_, _, _)
ReplaceAll(s, c, d) ==
  IF s = <<>> THEN <<>>
  ELSE <<IF Head(s) = c THEN d ELSE Head(s)>> \o ReplaceAll(Tail(s), c, d)

Digit(d) == <<"0", "1", "2", "3", "4", "5", "6", "7", "8", "9">>[d + 1]

\* Decimal rendering of a number in a template literal.
RECURSIVE ToStr(_)
ToStr(n) == IF n < 10 THEN <<Digit(n)>> ELSE ToStr(n \div 10) \o <<Digit(n % 10)>>

IsSpace(c) == c \in {" ", "\n", "\t"}

RECURSIVE TrimStart(_)
TrimStart(s) == IF s # <<>> /\ IsSpace(Head(s)) THEN TrimStart(Tail(s)) ELSE s

RECURSIVE TrimEnd(_)
TrimEnd(s) ==
  IF s # <<>> /\ IsSpace(s[Len(s)]) THEN TrimEnd(SubSeq(s, 1, Len(s) - 1)) ELSE s

Trim(s) == TrimEnd(TrimStart(s))

\* The value of an absent optional property. No text equals it: text is made
\* of one-character strings.
Undefined == <<"undefined">>

(***************************************************************************)
(* Literals of the source.                                                 *)
(***************************************************************************)
S_https == <<"h", "t", "t", "p", "s", ":", "/", "/">>
S_http == <<"h", "t", "t", "p", ":", "/", "/">>
S_github_com == <<"g", "i", "t", "h", "u", "b", ".", "c", "o", "m">>
S_dot_git == <<".", "g", "i", "t">>
S_tree == <<"t", "r", "e", "e">>
S_main == <<"m", "a", "i", "n">>
S_SKILL_md == <<"S", "K", "I", "L", "L", ".", "m", "d">>
S_MACOSX == <<"_", "_", "M", "A", "C", "O", "S", "X">>
S_github == <<"g", "i", "t", "h", "u", "b">>
S_user == <<"u", "s", "e", "r">>
S_import == <<"i", "m", "p", "o", "r", "t">>
S_skills == <<"s", "k", "i", "l", "l", "s">>

(***************************************************************************)
(* GitHub.parseRepoUrl (Repository Resolver).                              *)
(***************************************************************************)
LowerChars ==
  {"a", "b", "c", "d", "e", "f", "g", "h", "i", "j", "k", "l", "m", "n", "o", "p", "q",
   "r", "s", "t", "u", "v", "w", "x", "y", "z"}

UpperChars ==
  {"A", "B", "C", "D", "E", "F", "G", "H", "I", "J", "K", "L", "M", "N", "O", "P", "Q",
   "R", "S", "T", "U", "V", "W", "X", "Y", "Z"}

DigitChars == {"0", "1", "2", "3", "4", "5", "6", "7", "8", "9"}

\* The character class [\w.-].
ShorthandChars == LowerChars \cup UpperChars \cup DigitChars \cup {"_", ".", "-"}

\* /^[\w.-]+\/[\w.-]+$/.test(url)
IsShorthand(url) ==
  LET parts == Split(url, "/")
  IN /\ Len(parts) = 2
     /\ parts[1] # <<>>
     /\ parts[2] # <<>>
     /\ \A i \in 1..Len(url) : url[i] = "/" \/ url[i] \in ShorthandChars

\* What the lazy group ([^/]+?) followed by (?:\.git)? captures of one segment.
LazyRepo(seg) ==
  IF Len(seg) > Len(S_dot_git) /\ EndsWith(seg, S_dot_git)
  THEN SubSeq(seg, 1, Len(seg) - Len(S_dot_git))
  ELSE seg

\* repo.replace(/\.git$/, '')
StripDotGit(repo) ==
  IF EndsWith(repo, S_dot_git) THEN SubSeq(repo, 1, Len(repo) - Len(S_dot_git)) ELSE repo

\* The part of the expression after "github.com/", anchored at the end of the
\* text: ([^/]+)\/([^/]+?)(?:\.git)?(?:\/tree\/([^/]+)(?:\/(.+))?)?$
TailMatch(t) ==
  LET segs == Split(t, "/")
      n == Len(segs)
      pathFrom == Len(segs[1]) + Len(segs[2]) + Len(segs[3]) + Len(segs[4]) + 5
      path == IF n >= 5 THEN Slice(t, pathFrom) ELSE <<>>
      ok == /\ n >= 2
            /\ segs[1] # <<>>
            /\ segs[2] # <<>>
            /\ \/ n = 2
               \/ /\ n >= 4
                  /\ segs[3] = S_tree
                  /\ segs[4] # <<>>
                  /\ (n = 4 \/ path # <<>>)
  IN IF ok
     THEN [ok |-> TRUE, owner |-> segs[1], repo |-> LazyRepo(segs[2]),
           branch |-> IF n >= 4 THEN segs[4] ELSE Undefined,
           path |-> IF n >= 5 THEN path ELSE Undefined]
     ELSE [ok |-> FALSE, owner |-> <<>>, repo |-> <<>>, branch |-> Undefined,
           path |-> Undefined]

\* url.match(/(?:https?:\/\/)?github\.com\/ ... $/): the expression is not anchored at
\* the start, so the match begins at the leftmost "github.com/" whose rest matches.
UrlMatch(url) ==
  LET lit == S_github_com \o <<"/">>
      starts == {j \in 1..Len(url) :
                   /\ j + Len(lit) - 1 <= Len(url)
                   /\ SubSeq(url, j, j + Len(lit) - 1) = lit
                   /\ TailMatch(Slice(url, j + Len(lit))).ok}
  IN IF starts = {}
     THEN TailMatch(<<>>)
     ELSE LET j == CHOOSE k \in starts : \A m \in starts : k <= m
          IN TailMatch(Slice(url, j + Len(lit)))

GitHubParseError == "GitHubParseError"
GitHubNotFoundError == "GitHubNotFoundError"
GitHubDownloadError == "GitHubDownloadError"

\* parseRepoUrl that never sets result.path.
parseRepoUrlWithoutPath(url, branchArg) ==
  LET defaultBranch == IF branchArg = Undefined THEN S_main ELSE branchArg
      m == UrlMatch(url)
  IN IF IsShorthand(url)
     THEN [ok |-> TRUE, owner |-> Split(url, "/")[1], repo |-> Split(url, "/")[2],
           branch |-> defaultBranch, path |-> Undefined]
     ELSE IF ~m.ok
     THEN [ok |-> FALSE, owner |-> <<>>, repo |-> <<>>, branch |-> defaultBranch,
           path |-> Undefined]
     ELSE [ok |-> TRUE, owner |-> m.owner, repo |-> StripDotGit(m.repo),
           branch |-> IF m.branch = Undefined \/ m.branch = <<>>
                      THEN defaultBranch ELSE m.branch,
           path |-> Undefined]

\* parseRepoUrl with `defaultBranch || branch` in place of `branch || defaultBranch`
\* when the argument is given.
parseRepoUrlArgumentFirst(url, branchArg) ==
  LET defaultBranch == IF branchArg = Undefined THEN S_main ELSE branchArg
      m == UrlMatch(url)
  IN IF IsShorthand(url)
     THEN [ok |-> TRUE, owner |-> Split(url, "/")[1], repo |-> Split(url, "/")[2],
           branch |-> defaultBranch, path |-> Undefined]
     ELSE IF ~m.ok
     THEN [ok |-> FALSE, owner |-> <<>>, repo |-> <<>>, branch |-> defaultBranch,
           path |-> Undefined]
     ELSE [ok |-> TRUE, owner |-> m.owner, repo |-> StripDotGit(m.repo),
           branch |-> IF branchArg # Undefined \/ m.branch = Undefined \/ m.branch = <<>>
                      THEN defaultBranch ELSE m.branch,
           path |-> IF m.path = Undefined \/ m.path = <<>> THEN Undefined ELSE m.path]

\* parseRepoUrl(url, defaultBranch = 'main'): [ok, owner, repo, branch, path]; ok is
\* FALSE where the source throws GitHubParseError.
parseRepoUrl(url, branchArg) ==
  LET defaultBranch == IF branchArg = Undefined THEN S_main ELSE branchArg
      m == UrlMatch(url)
  IN IF IsShorthand(url)
     THEN [ok |-> TRUE, owner |-> Split(url, "/")[1], repo |-> Split(url, "/")[2],
           branch |-> defaultBranch, path |-> Undefined]
     ELSE IF ~m.ok
     THEN [ok |-> FALSE, owner |-> <<>>, repo |-> <<>>, branch |-> defaultBranch,
           path |-> Undefined]
     ELSE [ok |-> TRUE, owner |-> m.owner, repo |-> StripDotGit(m.repo),
           branch |-> IF m.branch = Undefined \/ m.branch = <<>>
                      THEN defaultBranch ELSE m.branch,
           path |-> IF m.path = Undefined \/ m.path = <<>> THEN Undefined ELSE m.path]


(***************************************************************************)
(* Error kinds (errors.ts) and manifest validation (skillManifestSchema).  *)
(***************************************************************************)
SkillParseError == "SkillParseError"
SkillManifestError == "SkillManifestError"
SkillResourceError == "SkillResourceError"
SkillImportError == "SkillImportError"
NoError == "none"

\* An object without properties.
EmptyObject == [k \in {} |-> <<>>]

\* { ...a, ...b }
Spread(a, b) ==
  [k \in (DOMAIN a) \cup (DOMAIN b) |-> IF k \in DOMAIN b THEN b[k] ELSE a[k]]

\* z.string().url(): the text parses as a URL, which takes a scheme followed by
\* ':' and, for http and https, a host.
IsUrl(s) ==
  LET colon == IndexOf(s, ":")
      scheme == SubSeq(s, 1, colon - 1)
      rest == Slice(s, colon + 1)
  IN /\ colon > 1
     /\ \A i \in 1..Len(scheme) : scheme[i] \in LowerChars
     /\ (scheme \in {<<"h", "t", "t", "p">>, <<"h", "t", "t", "p", "s">>}
           => \E i \in 1..Len(rest) : rest[i] # "/")

UrlFields == {"gitUrl", "repository"}

StringFields == {"license", "version"}

\* A frontmatter value that is no text: a number, as YAML reads `version: 1`.
NumberValue == <<"number">>

\* z.string()
IsString(v) == v # Undefined /\ v # NumberValue

\* skillAuthorSchema: name: z.string(), url: z.string().url().optional()
AuthorAccepts(author) ==
  /\ "name" \in DOMAIN author
  /\ IsString(author["name"])
  /\ "url" \in DOMAIN author =>
        author["url"] = Undefined \/ (IsString(author["url"]) /\ IsUrl(author["url"]))

\* safeParse(data).success, had the schema declared name and description only.
SchemaAcceptsRequiredOnly(data) ==
  /\ "name" \in DOMAIN data /\ IsString(data["name"]) /\ Len(data["name"]) >= 1
  /\ "description" \in DOMAIN data
  /\ IsString(data["description"])
  /\ Len(data["description"]) >= 1

\* skillManifestSchema.safeParse(data).success
SchemaAccepts(data) ==
  /\ "name" \in DOMAIN data /\ IsString(data["name"]) /\ Len(data["name"]) >= 1
  /\ "description" \in DOMAIN data
  /\ IsString(data["description"])
  /\ Len(data["description"]) >= 1
  /\ \A f \in UrlFields \cap DOMAIN data :
        data[f] = Undefined \/ (IsString(data[f]) /\ IsUrl(data[f]))
  /\ \A f \in StringFields \cap DOMAIN data : data[f] = Undefined \/ IsString(data[f])
  /\ "permissions" \in DOMAIN data =>
        data["permissions"] = Undefined \/ data["permissions"] # NumberValue
  /\ "author" \in DOMAIN data => AuthorAccepts(data["author"])

\* result.data: .passthrough() keeps the unrecognized keys of the manifest; the
\* author object has no passthrough and keeps its declared keys only.
SchemaOutput(data) ==
  [k \in DOMAIN data |->
     IF k = "author"
     THEN [j \in (DOMAIN data[k]) \cap {"name", "url"} |-> data[k][j]]
     ELSE data[k]]

\* validateManifest(data)
validateManifest(data) ==
  IF SchemaAccepts(data)
  THEN [ok |-> TRUE, error |-> NoError, manifest |-> SchemaOutput(data)]
  ELSE [ok |-> FALSE, error |-> SkillManifestError, manifest |-> EmptyObject]

(***************************************************************************)
(* SkillParser. A file is [id, fm, data, body]: fm says whether the text   *)
(* has a frontmatter block ("ok"), has a block gray-matter cannot read     *)
(* ("bad") or has none ("none"); data is the block's content and body the  *)
(* text after it. An archive buffer is [id, ok, entries]: ok is FALSE for  *)
(* bytes fflate cannot unzip, entries are [path, file] in archive order.   *)
(***************************************************************************)
\* parseSkillMd, had the catch block wrapped every error in a SkillParseError.
parseSkillMdWrapping(file) ==
  IF file.fm # "bad" /\ validateManifest(IF file.fm = "ok" THEN file.data ELSE EmptyObject).ok
  THEN [ok |-> TRUE, error |-> NoError, content |-> Trim(file.body),
        manifest |->
          validateManifest(IF file.fm = "ok" THEN file.data ELSE EmptyObject).manifest]
  ELSE [ok |-> FALSE, error |-> SkillParseError, content |-> <<>>, manifest |-> EmptyObject]

\* matter(fileContent) followed by validateManifest and content.trim().
parseSkillMd(file) ==
  IF file.fm = "bad"
  THEN [ok |-> FALSE, error |-> SkillParseError, content |-> <<>>, manifest |-> EmptyObject]
  ELSE LET v == validateManifest(IF file.fm = "ok" THEN file.data ELSE EmptyObject)
       IN IF v.ok
          THEN [ok |-> TRUE, error |-> NoError, content |-> Trim(file.body),
                manifest |-> v.manifest]
          ELSE [ok |-> FALSE, error |-> v.error, content |-> <<>>, manifest |-> EmptyObject]

\* Object.keys(unzipped)
Keys(unzipped) == [i \in 1..Len(unzipped) |-> unzipped[i].path]

HasKey(unzipped, path) == \E i \in 1..Len(unzipped) : unzipped[i].path = path

\* unzipped[path]
Lookup(unzipped, path) ==
  unzipped[CHOOSE i \in 1..Len(unzipped) : unzipped[i].path = path].file

\* paths.find(pred): the first path of the list among those that satisfy pred
\* (matching), or Undefined.
FindFirst(paths, matching) ==
  IF \E i \in 1..Len(paths) : paths[i] \in matching
  THEN paths[CHOOSE i \in 1..Len(paths) :
               paths[i] \in matching /\ \A j \in 1..(i - 1) : paths[j] \notin matching]
  ELSE Undefined

findGitHubRootPrefix(paths) ==
  LET p == FindFirst(paths, {paths[i] : i \in {j \in 1..Len(paths) : IndexOf(paths[j], "/") > 1}})
  IN IF p = Undefined THEN Undefined ELSE SubSeq(p, 1, IndexOf(p, "/"))

\* basePath.replaceAll(/^\/|\/$/g, '')
StripSlashes(basePath) ==
  LET a == IF StartsWith(basePath, <<"/">>) THEN Tail(basePath) ELSE basePath
  IN IF EndsWith(a, <<"/">>) THEN SubSeq(a, 1, Len(a) - 1) ELSE a

\* The hint is pasted into a regular expression, where '.' stands for any character.
MatchesPattern(text, pattern) ==
  /\ Len(text) = Len(pattern)
  /\ \A i \in 1..Len(pattern) : pattern[i] = "." \/ pattern[i] = text[i]

\* new RegExp(`^[^/]+/${hint}/SKILL\\.md$`).test(path)
MatchesBasePathPattern(path, hint) ==
  LET tailLen == Len(hint) + Len(S_SKILL_md) + 2
      headLen == Len(path) - tailLen
  IN /\ headLen >= 1
     /\ \A i \in 1..headLen : path[i] # "/"
     /\ path[headLen + 1] = "/"
     /\ MatchesPattern(SubSeq(path, headLen + 2, headLen + 1 + Len(hint)), hint)
     /\ Slice(path, headLen + 2 + Len(hint)) = <<"/">> \o S_SKILL_md

\* /^[^/]+\/SKILL\.md$/.test(path)
IsFirstLevelSkillMd(path) ==
  LET parts == Split(path, "/")
  IN Len(parts) = 2 /\ parts[1] # <<>> /\ parts[2] = S_SKILL_md

\* findSkillMd(unzipped, basePath): the path of the manifest entry, or Undefined.
findSkillMd(unzipped, basePath) ==
  LET allPaths == Keys(unzipped)
      hasHint == basePath # Undefined /\ basePath # <<>>
      rootPrefix == findGitHubRootPrefix(allPaths)
      targetPath == rootPrefix \o StripSlashes(basePath) \o <<"/">> \o S_SKILL_md
      matchWithBasePath ==
        FindFirst(allPaths,
                  {allPaths[i] : i \in {j \in 1..Len(allPaths) :
                     MatchesBasePathPattern(allPaths[j], StripSlashes(basePath))}})
      match ==
        FindFirst(allPaths,
                  {allPaths[i] : i \in {j \in 1..Len(allPaths) :
                     IsFirstLevelSkillMd(allPaths[j])}})
  IN IF hasHint /\ rootPrefix # Undefined /\ HasKey(unzipped, targetPath)
     THEN targetPath
     ELSE IF hasHint /\ matchWithBasePath # Undefined
     THEN matchWithBasePath
     ELSE IF HasKey(unzipped, S_SKILL_md)
     THEN S_SKILL_md
     ELSE match

\* Whether extractResources keeps the entry at path, given the manifest's directory.
KeepsEntry(path, skillMdPath, basePath) ==
  /\ ~EndsWith(path, <<"/">>)
  /\ ~StartsWith(path, <<".">>)
  /\ ~Includes(path, S_MACOSX)
  /\ path # skillMdPath
  /\ (basePath # <<>> => StartsWith(path, basePath))
  /\ Slice(path, Len(basePath) + 1) # <<>>

\* extractResources(unzipped, skillMdPath): [path, file] pairs in insertion order.
extractResources(unzipped, skillMdPath) ==
  LET basePath == IF Includes(skillMdPath, <<"/">>)
                  THEN SubSeq(skillMdPath, 1, LastIndexOf(skillMdPath, "/"))
                  ELSE <<>>
      kept == SelectSeq(unzipped, LAMBDA e : KeepsEntry(e.path, skillMdPath, basePath))
  IN [i \in 1..Len(kept) |->
        [path |-> Slice(kept[i].path, Len(basePath) + 1), file |-> kept[i].file]]

\* sha256(buffer), hex: a digest that stands for the bytes and nothing else.
Sha256(bytesId) == <<"#">> \o ToStr(bytesId)

\* The bytes hashed, had the hash been taken over the resources kept.
HashedResources(buffer, resources) ==
  IF resources = <<>> THEN 0 ELSE resources[1].file.id

\* The bytes sha256 is given: the buffer as it came in, whatever was extracted.
HashedBytes(buffer, resources) == buffer.id

\* parseZipPackage(buffer, { basePath })
parseZipPackage(buffer, basePath) ==
  LET failed(kind) == [ok |-> FALSE, error |-> kind, content |-> <<>>,
                       manifest |-> EmptyObject, resources |-> <<>>, zipHash |-> Undefined]
      unzipped == buffer.entries
      skillMdPath == findSkillMd(unzipped, basePath)
      doc == parseSkillMd(Lookup(unzipped, skillMdPath))
  IN IF ~buffer.ok THEN failed(SkillParseError)
     ELSE IF skillMdPath = Undefined THEN failed(SkillParseError)
     ELSE IF ~doc.ok THEN failed(doc.error)
     ELSE [ok |-> TRUE, error |-> NoError, content |-> doc.content,
           manifest |-> doc.manifest,
           resources |-> extractResources(unzipped, skillMdPath),
           zipHash |-> Sha256(HashedBytes(buffer, extractResources(unzipped, skillMdPath)))]


(***************************************************************************)
(* Inputs the calls and the environment draw from.                         *)
(***************************************************************************)
Owners == {<<"u">>}

Doc(id, data, body) == [id |-> id, fm |-> "ok", data |-> data, body |-> body]

Blob(id) == [id |-> id, fm |-> "none", data |-> EmptyObject, body |-> <<"b">> \o ToStr(id)]

P_s == <<"s", "/">>

\* SKILL.md at the root, with a custom field and a gitUrl of its own in the
\* frontmatter, and two resources.
ArchiveRoot ==
  [id |-> 1, ok |-> TRUE,
   entries |-> <<
     [path |-> S_SKILL_md,
      file |-> Doc(10, [name |-> <<"n">>, description |-> <<"d">>, custom |-> <<"c">>,
                        gitUrl |-> <<"h", "t", "t", "p", ":", "g">>],
                   <<" ", "B", " ">>)],
     [path |-> <<"r">>, file |-> Blob(11)],
     [path |-> <<"t">>, file |-> Blob(12)] >>]

\* SKILL.md in the directory s/, with a hidden entry, a '..' entry, a metadata
\* entry and an entry of another directory next to it.
ArchiveNested ==
  [id |-> 2, ok |-> TRUE,
   entries |-> <<
     [path |-> P_s \o S_SKILL_md,
      file |-> Doc(20, [name |-> <<"m">>, description |-> <<"e">>], <<"N">>)],
     [path |-> P_s \o <<".", "e">>, file |-> Blob(21)],
     [path |-> P_s \o <<".", ".", "/", "x">>, file |-> Blob(22)],
     [path |-> <<"o", "/", "i">>, file |-> Blob(24)],
     [path |-> S_MACOSX \o <<"/", "k">>, file |-> Blob(25)] >>]

\* Bytes that are no archive.
ArchiveCorrupt == [id |-> 3, ok |-> FALSE, entries |-> <<>>]

\* SKILL.md whose frontmatter has no description.
ArchiveBadManifest ==
  [id |-> 4, ok |-> TRUE,
   entries |-> <<[path |-> S_SKILL_md, file |-> Doc(40, [name |-> <<"n">>], <<"B">>)]>>]

\* No SKILL.md at any recognised place.
ArchiveNoManifest ==
  [id |-> 5, ok |-> TRUE, entries |-> <<[path |-> <<"R">>, file |-> Blob(50)]>>]

\* A repository archive, wrapped in the folder r/: skills in r/a/ and r/c/, a
\* SKILL.md too deep to be found without a hint.
ArchiveRepo ==
  [id |-> 7, ok |-> TRUE,
   entries |-> <<
     [path |-> <<"r", "/", "a", "/">> \o S_SKILL_md,
      file |-> Doc(70, [name |-> <<"A">>, description |-> <<"d">>], <<"a">>)],
     [path |-> <<"r", "/", "a", "/", "f">>, file |-> Blob(71)],
     [path |-> <<"r", "/", "c", "/">> \o S_SKILL_md,
      file |-> Doc(72, [name |-> <<"C">>, description |-> <<"d">>], <<"c">>)],
     [path |-> <<"r", "/", "c", "/", "g">>, file |-> Blob(73)],
     [path |-> <<"r", "/", "c", "/", "h", "/", "i">>, file |-> Blob(74)] >>]

Archives ==
  <<ArchiveRoot, ArchiveNested, ArchiveCorrupt, ArchiveBadManifest, ArchiveNoManifest,
    ArchiveRepo>>

\* zipFileId values: the uploaded files 1..Len(Archives), and 0, an id no file has.
ZipFileIds == 0..Len(Archives)

GH == S_https \o S_github_com \o <<"/">>

UrlRoot == GH \o <<"a", "/", "b">>
UrlSubC == GH \o <<"a", "/", "b", "/">> \o S_tree \o <<"/", "m", "/", "c">>
UrlSubX == GH \o <<"a", "/", "b", "/">> \o S_tree \o <<"/", "m", "/", "x">>
UrlDotC == GH \o <<"a", "/", "b", ".", "c">>
UrlGitlab == S_https \o <<"g", "i", "t", "l", "a", "b", ".", "c", "o", "m", "/", "a", "/", "b">>

GitUrls == {UrlRoot, UrlSubC, UrlSubX, UrlDotC, UrlGitlab}

Branches == {Undefined, <<"d">>}

\* What the fetch of the archive URL can end in.
FetchOutcomes == {"ok", "404", "500", "network"}

NoInput ==
  [name |-> <<>>, description |-> Undefined, content |-> <<>>, identifier |-> Undefined,
   zipFileId |-> 0, gitUrl |-> <<>>, branch |-> Undefined]

CreateInputs ==
  {[NoInput EXCEPT !.name = <<"N">>, !.content = <<"C">>, !.description = d,
                   !.identifier = i] :
     d \in {Undefined, <<"D">>}, i \in {Undefined, <<"k">>}}

ZipInputs == {[NoInput EXCEPT !.zipFileId = z] : z \in ZipFileIds}

\* Every URL without a branch input, and the root URL with one.
GitHubInputs ==
  {[NoInput EXCEPT !.gitUrl = u] : u \in GitUrls}
    \cup {[NoInput EXCEPT !.gitUrl = UrlRoot, !.branch = b] : b \in Branches}


(***************************************************************************)
(* State.                                                                  *)
(*   clock       Date.now()                                                *)
(*   skills      the record store (AgentSkillModel), in insertion order    *)
(*   objects     the object storage: the [key, file] pairs uploaded        *)
(*   fileRecords the file registry, in insertion order                     *)
(*   calls       the orchestrator calls: where each is and its locals      *)
(***************************************************************************)
VARIABLES clock, skills, objects, fileRecords, calls, probe,
          builtinToolLoading, invocations

vars == <<clock, skills, objects, fileRecords, calls, probe, builtinToolLoading, invocations>>

CallIds == 1..MaxCalls

NoRepoInfo == [ok |-> FALSE, owner |-> <<>>, repo |-> <<>>, branch |-> Undefined,
               path |-> Undefined]

NoBuffer == [id |-> 0, ok |-> FALSE, entries |-> <<>>]

NoParsed == [ok |-> FALSE, error |-> NoError, content |-> <<>>, manifest |-> EmptyObject,
             resources |-> <<>>, zipHash |-> Undefined]

NoData == [content |-> <<>>, description |-> Undefined, identifier |-> <<>>,
           manifest |-> EmptyObject, name |-> <<>>, resources |-> Undefined,
           source |-> "none", zipFileHash |-> Undefined]

NoFailure == [kind |-> NoError, code |-> "none"]

NoRecord ==
  [id |-> 0, owner |-> <<>>, identifier |-> <<>>, name |-> <<>>, description |-> Undefined,
   content |-> <<>>, manifest |-> EmptyObject, source |-> "none", resources |-> Undefined,
   zipFileHash |-> Undefined]

\* A call that has not begun. The fields up to returned are the locals of the call,
\* its rejection (failure) and its return value (returned). The others record what
\* happened, for the properties below, and the program keeps no such fields:
\* raised is the error a lower layer threw, fetched the outcome of the archive fetch,
\* tempFile and cleanups the temporary file and the runs of cleanup(), after the
\* calls that had settled when this one began, uploads, creates and updates the
\* writes the call made.
IdleCall ==
  [pc |-> "idle", kind |-> "none", owner |-> <<>>, input |-> NoInput,
   repoInfo |-> NoRepoInfo, zipBuffer |-> NoBuffer, parsed |-> NoParsed,
   index |-> 0, key |-> <<>>, resourceIds |-> <<>>, identifier |-> <<>>,
   existing |-> 0, data |-> NoData, failure |-> NoFailure, returned |-> NoRecord,
   raised |-> NoError, fetched |-> "none", tempFile |-> "none", cleanups |-> 0,
   after |-> {}, uploads |-> 0, creates |-> 0, updates |-> 0]

\* No function applied.
\* What a probed URL was written from: its form and its parts.
NoRef == [form |-> "none", owner |-> <<>>, repo |-> <<>>, branch |-> Undefined,
          path |-> Undefined]

\* No file record, no content, and no readResource has run.
NoFile == [id |-> 0, url |-> Undefined, fileHash |-> Undefined]
NoContent == [id |-> 0]
NoRead == [ok |-> FALSE, error |-> NoError, content |-> NoContent, reads |-> 0]

NoProbe ==
  [fn |-> "none", done |-> FALSE, data |-> EmptyObject,
   validated |-> [ok |-> FALSE, error |-> NoError, manifest |-> EmptyObject],
   buffer |-> NoBuffer, hint |-> Undefined, parsed |-> NoParsed,
   skillMdPath |-> Undefined,
   again |-> FALSE, hint2 |-> Undefined, parsed2 |-> NoParsed,
   paths |-> <<>>, paths2 |-> <<>>,
   tree |-> [root |-> <<>>, nodes |-> EmptyObject],
   tree2 |-> [root |-> <<>>, nodes |-> EmptyObject],
   resourceIds |-> <<>>, virtualPath |-> <<>>, read |-> NoRead,
   url |-> <<>>, branchArg |-> Undefined, ref |-> NoRef, repoInfo |-> NoRepoInfo]

\* initialBuiltinToolState.builtinToolLoading: {}
NoFlags == [k \in {} |-> FALSE]

\* The invocations of the builtin-tool store, none of them started.
ToolCallIds == 1..MaxInvocations
IdleInvocation ==
  [pc |-> "idle", kind |-> "none", key |-> <<>>, outcome |-> "none", success |-> FALSE,
   threw |-> FALSE]
NoInvocations == [t \in ToolCallIds |-> IdleInvocation]

Init ==
  /\ builtinToolLoading = NoFlags
  /\ invocations = NoInvocations
  /\ probe = NoProbe
  /\ clock = 0
  /\ skills = <<>>
  /\ objects = {}
  /\ fileRecords = <<>>
  /\ calls = [p \in CallIds |-> IdleCall]

Settled(c) == c.pc \in {"done", "failed"}

\* The clock advances between any two steps.
Tick ==
  /\ clock < MaxClock
  /\ clock' = clock + 1
  /\ UNCHANGED <<builtinToolLoading, invocations, probe, skills, objects, fileRecords, calls>>

(***************************************************************************)
(* The record store (AgentSkillModel), scoped to the owner of the call.    *)
(***************************************************************************)
\* findByIdentifier(identifier): the id of the owner's record, 0 when there is none.
findByIdentifier(store, owner, identifier) ==
  LET hits == {i \in 1..Len(store) :
                 store[i].owner = owner /\ store[i].identifier = identifier}
  IN IF hits = {} THEN 0 ELSE store[CHOOSE i \in hits : \A j \in hits : i <= j].id

\* create(data), had the store accepted every record.
CreateAcceptedAlways(store, owner, data) == TRUE

\* Whether create(data) is accepted: the identifier is unique among the owner's records.
CreateAccepted(store, owner, data) == findByIdentifier(store, owner, data.identifier) = 0

\* The record create(data) inserts and returns.
NewRecord(store, owner, data) ==
  [id |-> Len(store) + 1, owner |-> owner, identifier |-> data.identifier,
   name |-> data.name, description |-> data.description, content |-> data.content,
   manifest |-> data.manifest, source |-> data.source, resources |-> data.resources,
   zipFileHash |-> data.zipFileHash]

\* The record update(id, data) leaves and returns: the fields of data replace those
\* of the record; id, owner, identifier and source stay.
UpdatedRecord(record, data) ==
  [record EXCEPT !.content = data.content, !.description = data.description,
                 !.manifest = data.manifest, !.name = data.name,
                 !.resources = data.resources, !.zipFileHash = data.zipFileHash]

RecordById(store, id) == store[CHOOSE i \in 1..Len(store) : store[i].id = id]

StoreUpdate(store, id, data) ==
  [i \in 1..Len(store) |->
     IF store[i].id = id THEN UpdatedRecord(store[i], data) ELSE store[i]]

\* The errors of the store: the identifier exists already, or the store is not there.
UniqueViolation == "UniqueViolation"
StoreUnavailable == "StoreUnavailable"

(***************************************************************************)
(* Ends of a call.                                                         *)
(***************************************************************************)
\* Finally, had cleanup() been the last statement of the try block instead: an
\* exception passes it by.
FinallyAfterSuccessOnly(c) ==
  IF c.kind = "zip" /\ c.pc # "failed"
  THEN [c EXCEPT !.cleanups = @ + 1, !.tempFile = "removed"]
  ELSE c

\* The finally block of importFromZip: cleanup() runs when the try block is left.
Finally(c) ==
  IF c.kind = "zip" THEN [c EXCEPT !.cleanups = @ + 1, !.tempFile = "removed"] ELSE c

\* The call rejects with failure, after a lower layer threw raised (NoError when the
\* orchestrator throws of its own).
\* A failure after which the call goes back to fetching instead of ending.
RejectedThenRetried(c, raised, failure) ==
  [c EXCEPT !.pc = "fetch", !.raised = raised]

Rejected(c, raised, failure) ==
  [c EXCEPT !.pc = "failed", !.raised = raised, !.failure = failure]

\* new SkillImportError(message, code)
ImportError(code) == [kind |-> SkillImportError, code |-> code]

\* An error of a lower layer that nothing catches: the call rejects with it.
Propagated(c, kind) == Rejected(c, kind, [kind |-> kind, code |-> "none"])

\* A failure of storeResource after which the loop goes on with the next resource.
ThrownThenNextResource(c, kind) ==
  IF c.pc \in {"upload", "fileRecord"}
  THEN [c EXCEPT !.index = @ + 1,
                 !.pc = IF c.index < Len(c.parsed.resources) THEN "upload" ELSE "identify"]
  ELSE Finally(Propagated(c, kind))

\* The same inside the body of the call: in importFromZip the body is the try block.
Thrown(c, kind) == Finally(Propagated(c, kind))


(***************************************************************************)
(* SkillImporter.createUserSkill                                           *)
(***************************************************************************)
CanStart(p) == calls[p].pc = "idle" /\ \A q \in 1..(p - 1) : calls[q].pc # "idle"

Begin(p, kind, owner, input) ==
  [IdleCall EXCEPT !.kind = kind, !.owner = owner, !.input = input,
                   !.after = {q \in CallIds : Settled(calls[q])}]

\* input.identifier || `user.${this.userId}.${Date.now()}`
UserIdentifier(owner, input, now) ==
  IF input.identifier # Undefined /\ input.identifier # <<>>
  THEN input.identifier
  ELSE S_user \o <<".">> \o owner \o <<".">> \o ToStr(now)

\* The record createUserSkill asks the store to create.
UserSkillData(input, identifier) ==
  [NoData EXCEPT !.content = input.content, !.description = input.description,
                 !.identifier = identifier, !.manifest = [name |-> input.name],
                 !.name = input.name, !.source = "user"]

createUserSkill(p, owner, input) ==
  /\ CanStart(p)
  /\ calls' = [calls EXCEPT ![p] =
       [Begin(p, "create", owner, input) EXCEPT
          !.pc = "find", !.identifier = UserIdentifier(owner, input, clock)]]
  /\ UNCHANGED <<builtinToolLoading, invocations, probe, clock, skills, objects, fileRecords>>

\* if (existing), had the test never succeeded.
IsExistingNever(existing) == FALSE

\* if (existing)
IsExisting(existing) == existing # 0

\* findByIdentifier answers: CONFLICT when it found a record, else create is issued.
UserSkillFind(p) ==
  LET c == calls[p]
      existing == findByIdentifier(skills, c.owner, c.identifier)
  IN /\ c.pc = "find"
     /\ c.kind = "create"
     /\ calls' = [calls EXCEPT ![p] =
          IF IsExisting(existing)
          THEN Rejected([c EXCEPT !.existing = existing], NoError, ImportError("CONFLICT"))
          ELSE [c EXCEPT !.pc = "create", !.existing = existing,
                         !.data = UserSkillData(c.input, c.identifier)]]
     /\ UNCHANGED <<builtinToolLoading, invocations, probe, clock, skills, objects, fileRecords>>

\* skillModel.create(data) settles, for all three entry points.
Create(p) ==
  LET c == calls[p]
  IN /\ c.pc = "create"
     /\ \E up \in BOOLEAN :
          IF up /\ CreateAccepted(skills, c.owner, c.data)
          THEN /\ skills' = Append(skills, NewRecord(skills, c.owner, c.data))
               /\ calls' = [calls EXCEPT ![p] =
                    [c EXCEPT !.pc = "done", !.creates = @ + 1,
                              !.returned = NewRecord(skills, c.owner, c.data)]]
          ELSE /\ skills' = skills
               /\ calls' = [calls EXCEPT ![p] =
                    Propagated(c, IF up THEN UniqueViolation ELSE StoreUnavailable)]
     /\ UNCHANGED <<builtinToolLoading, invocations, probe, clock, objects, fileRecords>>

(***************************************************************************)
(* SkillImporter.importFromZip                                             *)
(***************************************************************************)
importFromZip(p, owner, input) ==
  /\ CanStart(p)
  /\ calls' = [calls EXCEPT ![p] = [Begin(p, "zip", owner, input) EXCEPT !.pc = "download"]]
  /\ UNCHANGED <<builtinToolLoading, invocations, probe, clock, skills, objects, fileRecords>>

\* fileService.downloadFileToLocal(zipFileId) settles; it is awaited before the try block.
ZipDownload(p) ==
  LET c == calls[p]
  IN /\ c.pc = "download"
     /\ \E ok \in BOOLEAN :
          calls' = [calls EXCEPT ![p] =
            IF ok /\ c.input.zipFileId \in 1..Len(Archives)
            THEN [c EXCEPT !.pc = "readFile", !.tempFile = "present"]
            ELSE Propagated(c, "FileServiceError")]
     /\ UNCHANGED <<builtinToolLoading, invocations, probe, clock, skills, objects, fileRecords>>

\* readFile(filePath) settles.
ZipReadFile(p) ==
  LET c == calls[p]
  IN /\ c.pc = "readFile"
     /\ \E ok \in BOOLEAN :
          calls' = [calls EXCEPT ![p] =
            IF ok
            THEN [c EXCEPT !.pc = "parse", !.zipBuffer = Archives[c.input.zipFileId]]
            ELSE Thrown(c, "FsError")]
     /\ UNCHANGED <<builtinToolLoading, invocations, probe, clock, skills, objects, fileRecords>>

\* The options importFromZip and importFromGitHub hand to parseZipPackage: neither
\* names a basePath.
ParseBasePath(c) == Undefined

\* parseZipPackage settles; with a hash and resources, storeResources begins.
Parse(p) ==
  LET c == calls[p]
      r == parseZipPackage(c.zipBuffer, ParseBasePath(c))
      stores == r.zipHash # Undefined /\ r.zipHash # <<>> /\ Len(r.resources) > 0
  IN /\ c.pc = "parse"
     /\ calls' = [calls EXCEPT ![p] =
          IF r.ok
          THEN [c EXCEPT !.parsed = r, !.index = 1,
                         !.pc = IF stores THEN "upload" ELSE "identify"]
          ELSE Thrown(c, r.error)]
     /\ UNCHANGED <<builtinToolLoading, invocations, probe, clock, skills, objects, fileRecords>>

(***************************************************************************)
(* SkillResourceService.storeResources / storeResource                     *)
(***************************************************************************)
\* `skills/${zipHash}/${virtualPath}`
ResourceKey(zipHash, virtualPath) ==
  S_skills \o <<"/">> \o zipHash \o <<"/">> \o virtualPath

\* fileService.uploadMedia(key, buffer) settles.
StoreUpload(p) ==
  LET c == calls[p]
      res == c.parsed.resources[c.index]
      key == ResourceKey(c.parsed.zipHash, res.path)
  IN /\ c.pc = "upload"
     /\ \E ok \in BOOLEAN :
          IF ok
          THEN /\ objects' = objects \cup {[key |-> key, file |-> res.file]}
               /\ calls' = [calls EXCEPT ![p] =
                    [c EXCEPT !.pc = "fileRecord", !.key = key, !.uploads = @ + 1]]
          ELSE /\ objects' = objects
               /\ calls' = [calls EXCEPT ![p] = Thrown(c, "StorageError")]
     /\ UNCHANGED <<builtinToolLoading, invocations, probe, clock, skills, fileRecords>>

\* fileService.createFileRecord({..., url: key}) settles; the loop goes on.
StoreFileRecord(p) ==
  LET c == calls[p]
      res == c.parsed.resources[c.index]
      fileId == Len(fileRecords) + 1
  IN /\ c.pc = "fileRecord"
     /\ \E ok \in BOOLEAN :
          IF ok
          THEN /\ fileRecords' = Append(fileRecords,
                    [id |-> fileId, url |-> c.key, fileHash |-> Sha256(res.file.id)])
               /\ calls' = [calls EXCEPT ![p] =
                    [c EXCEPT !.resourceIds = Append(@, [path |-> res.path, id |-> fileId]),
                              !.index = @ + 1,
                              !.pc = IF c.index < Len(c.parsed.resources)
                                     THEN "upload" ELSE "identify"]]
          ELSE /\ fileRecords' = fileRecords
               /\ calls' = [calls EXCEPT ![p] = Thrown(c, "StorageError")]
     /\ UNCHANGED <<builtinToolLoading, invocations, probe, clock, skills, objects>>

(***************************************************************************)
(* SkillResourceService.readResource / getResourceKey                      *)
(***************************************************************************)
\* resourceIds[virtualPath]: the id the mapping holds for the path, 0 (falsy)
\* when the path is not a key.
NoFileId == 0
FileIdOf(resourceIds, virtualPath) ==
  IF \E i \in 1..Len(resourceIds) : resourceIds[i].path = virtualPath
  THEN resourceIds[CHOOSE i \in 1..Len(resourceIds) :
                     resourceIds[i].path = virtualPath].id
  ELSE NoFileId

\* fileModel.findById(fileId): the record of that id, or none.
findById(fileId) ==
  IF \E i \in 1..Len(fileRecords) : fileRecords[i].id = fileId
  THEN [found |-> TRUE,
        file |-> fileRecords[CHOOSE i \in 1..Len(fileRecords) : fileRecords[i].id = fileId]]
  ELSE [found |-> FALSE, file |-> NoFile]

\* fileService.getFileContent(key): one read of object storage.
getFileContent(key) ==
  IF \E o \in objects : o.key = key
  THEN [ok |-> TRUE, error |-> NoError,
        content |-> (CHOOSE o \in objects : o.key = key).file, reads |-> 1]
  ELSE [ok |-> FALSE, error |-> "StorageError", content |-> NoContent, reads |-> 1]

\* getResourceKey without its two tests: whatever url there is.
getResourceKeyUnchecked(resourceIds, virtualPath) ==
  LET file == findById(FileIdOf(resourceIds, virtualPath))
  IN [ok |-> TRUE, error |-> NoError,
      url |-> IF file.found THEN file.file.url ELSE Undefined]

getResourceKey(resourceIds, virtualPath) ==
  LET fileId == FileIdOf(resourceIds, virtualPath)
      file == findById(fileId)
  IN IF fileId = NoFileId
     THEN [ok |-> FALSE, error |-> "SkillResourceError", url |-> Undefined]
     ELSE IF ~file.found
          THEN [ok |-> FALSE, error |-> "SkillResourceError", url |-> Undefined]
          ELSE [ok |-> TRUE, error |-> NoError, url |-> file.file.url]

readResource(resourceIds, virtualPath) ==
  LET key == getResourceKey(resourceIds, virtualPath)
  IN IF key.ok
     THEN getFileContent(key.url)
     ELSE [ok |-> FALSE, error |-> key.error, content |-> NoContent, reads |-> 0]

\* The characters of paths in the order of their UTF-16 code units, which is the
\* order Array.prototype.sort() compares text by.
CodeUnits ==
  <<"-", ".", "/", "0", "1", "2", "3", "4", "5", "6", "7", "8", "9",
    "A", "B", "C", "D", "E", "F", "G", "H", "I", "J", "K", "L", "M", "N", "O", "P", "Q",
    "R", "S", "T", "U", "V", "W", "X", "Y", "Z", "_",
    "a", "b", "c", "d", "e", "f", "g", "h", "i", "j", "k", "l", "m", "n", "o", "p", "q",
    "r", "s", "t", "u", "v", "w", "x", "y", "z">>

CharCode(c) == CHOOSE i \in 1..Len(CodeUnits) : CodeUnits[i] = c

\* a < b as sort() without a comparator decides it.
RECURSIVE Less(_, _)
Less(a, b) ==
  /\ b # <<>>
  /\ \/ a = <<>>
     \/ CharCode(Head(a)) < CharCode(Head(b))
     \/ Head(a) = Head(b) /\ Less(Tail(a), Tail(b))

RECURSIVE InsertSorted(_, _)
InsertSorted(x, sorted) ==
  IF sorted = <<>> \/ Less(x, Head(sorted))
  THEN <<x>> \o sorted
  ELSE <<Head(sorted)>> \o InsertSorted(x, Tail(sorted))

\* buildTree, had it walked the paths in the order given.
PathsAsGiven(paths) == paths

\* [...paths].sort()
RECURSIVE SortedPaths(_)
SortedPaths(paths) ==
  IF paths = <<>> THEN <<>> ELSE InsertSorted(Head(paths), SortedPaths(Tail(paths)))

\* root = [] and nodeMap = new Map(). A node is [name, path, type, children]; the
\* children of a directory and the root are lists of node paths, the keys of nodeMap.
EmptyTree == [root |-> <<>>, nodes |-> EmptyObject]

\* The inner loop of buildTree from part i on: level is the path of the directory
\* whose children currentLevel is, Undefined for the root list.
RECURSIVE WalkParts(_, _, _, _, _)
WalkParts(tree, parts, i, currentPath, level) ==
  IF i > Len(parts) THEN tree
  ELSE LET part == parts[i]
           isFile == i = Len(parts)
           path == IF currentPath # <<>> THEN currentPath \o <<"/">> \o part ELSE part
           known == path \in DOMAIN tree.nodes
           node == IF known THEN tree.nodes[path]
                   ELSE [name |-> part, path |-> path,
                         type |-> IF isFile THEN "file" ELSE "directory",
                         children |-> IF isFile THEN Undefined ELSE <<>>]
           added == [tree EXCEPT !.nodes = (path :> node) @@ tree.nodes]
           pushed == IF known THEN tree
                     ELSE IF level = Undefined
                     THEN [added EXCEPT !.root = Append(@, path)]
                     ELSE [added EXCEPT !.nodes[level].children = Append(@, path)]
           nextLevel == IF ~isFile /\ node.children # Undefined THEN path ELSE level
       IN WalkParts(pushed, parts, i + 1, path, nextLevel)

RECURSIVE WalkPaths(_, _)
WalkPaths(tree, sorted) ==
  IF sorted = <<>> THEN tree
  ELSE WalkPaths(WalkParts(tree, Split(Head(sorted), "/"), 1, <<>>, Undefined), Tail(sorted))

\* buildTree(paths)
buildTree(paths) == WalkPaths(EmptyTree, SortedPaths(paths))

\* `import.${this.userId}.${Date.now()}`
ImportIdentifier(owner, now) == S_import \o <<".">> \o owner \o <<".">> \o ToStr(now)

\* The record importFromZip asks the store to create.
ZipSkillData(c, identifier) ==
  [NoData EXCEPT !.content = c.parsed.content, !.description = c.parsed.manifest["name"],
                 !.identifier = identifier, !.manifest = c.parsed.manifest,
                 !.name = c.parsed.manifest["name"], !.resources = c.resourceIds,
                 !.source = "user", !.zipFileHash = c.parsed.zipHash]

\* After storeResources: the identifier is generated and create is issued; the try
\* block returns the pending promise, so the finally block runs here.
ZipIdentify(p) ==
  LET c == calls[p]
      identifier == ImportIdentifier(c.owner, clock)
  IN /\ c.pc = "identify"
     /\ c.kind = "zip"
     /\ calls' = [calls EXCEPT ![p] =
          Finally([c EXCEPT !.pc = "create", !.identifier = identifier,
                            !.data = ZipSkillData(c, identifier)])]
     /\ UNCHANGED <<builtinToolLoading, invocations, probe, clock, skills, objects, fileRecords>>


(***************************************************************************)
(* SkillImporter.importFromGitHub                                          *)
(***************************************************************************)
importFromGitHub(p, owner, input) ==
  LET c == Begin(p, "github", owner, input)
      repoInfo == parseRepoUrl(input.gitUrl, input.branch)
  IN /\ CanStart(p)
     /\ calls' = [calls EXCEPT ![p] =
          IF repoInfo.ok
          THEN [c EXCEPT !.pc = "fetch", !.repoInfo = repoInfo]
          ELSE Rejected(c, GitHubParseError, ImportError("INVALID_URL"))]
     /\ UNCHANGED <<builtinToolLoading, invocations, probe, clock, skills, objects, fileRecords>>

\* downloadRepoZip: what the fetch of the archive URL gives the caller.
downloadRepoZip(outcome, archive) ==
  IF outcome = "ok" THEN [ok |-> TRUE, error |-> NoError, buffer |-> archive]
  ELSE IF outcome = "404"
  THEN [ok |-> FALSE, error |-> GitHubNotFoundError, buffer |-> NoBuffer]
  ELSE IF outcome = "500"
  THEN [ok |-> FALSE, error |-> GitHubDownloadError, buffer |-> NoBuffer]
  ELSE [ok |-> FALSE, error |-> "TypeError", buffer |-> NoBuffer]

\* DownloadFailure, had the catch block rethrown what is not a GitHubNotFoundError.
DownloadFailureRethrown(error) ==
  IF error = GitHubNotFoundError
  THEN [kind |-> SkillImportError, code |-> "NOT_FOUND"]
  ELSE [kind |-> error, code |-> "none"]

\* DownloadFailure, had the catch block not looked at the class of the error.
DownloadFailureUntyped(error) == [kind |-> SkillImportError, code |-> "DOWNLOAD_FAILED"]

\* The catch block around downloadRepoZip: what the call rejects with.
DownloadFailure(error) ==
  IF error = GitHubNotFoundError
  THEN ImportError("NOT_FOUND")
  ELSE ImportError("DOWNLOAD_FAILED")

GitHubFetch(p) ==
  LET c == calls[p]
  IN /\ c.pc = "fetch"
     /\ \E outcome \in FetchOutcomes, a \in 1..Len(Archives) :
          LET r == downloadRepoZip(outcome, Archives[a])
          IN calls' = [calls EXCEPT ![p] =
               IF r.ok
               THEN [c EXCEPT !.pc = "parse", !.zipBuffer = r.buffer, !.fetched = outcome]
               ELSE Rejected([c EXCEPT !.fetched = outcome], r.error,
                             DownloadFailure(r.error))]
     /\ UNCHANGED <<builtinToolLoading, invocations, probe, clock, skills, objects, fileRecords>>

\* The identifier, had the branch been made part of it.
GitHubIdentifierWithBranch(repoInfo) ==
  S_github \o <<".">> \o repoInfo.owner \o <<".">> \o repoInfo.repo
    \o <<".">> \o repoInfo.branch

\* `github.${repoInfo.owner}.${repoInfo.repo}`
GitHubIdentifier(repoInfo) ==
  S_github \o <<".">> \o repoInfo.owner \o <<".">> \o repoInfo.repo

\* { gitUrl, repository, ...manifest }: the fields of the parsed manifest win.
FullManifestParsedLast(manifest, input, repoInfo) ==
  Spread([gitUrl |-> input.gitUrl,
          repository |-> GH \o repoInfo.owner \o <<"/">> \o repoInfo.repo],
         manifest)

\* { ...manifest, gitUrl, repository }
FullManifest(manifest, input, repoInfo) ==
  Spread(manifest,
         [gitUrl |-> input.gitUrl,
          repository |-> GH \o repoInfo.owner \o <<"/">> \o repoInfo.repo])

\* The record importFromGitHub asks the store to create, or to update with.
GitHubSkillData(c, identifier) ==
  [NoData EXCEPT !.content = c.parsed.content, !.description = c.parsed.manifest["name"],
                 !.identifier = identifier,
                 !.manifest = FullManifest(c.parsed.manifest, c.input, c.repoInfo),
                 !.name = c.parsed.manifest["name"], !.resources = c.resourceIds,
                 !.source = "market", !.zipFileHash = c.parsed.zipHash]

\* After storeResources: identifier and manifest are built, findByIdentifier is issued.
GitHubIdentify(p) ==
  LET c == calls[p]
      identifier == GitHubIdentifier(c.repoInfo)
  IN /\ c.pc = "identify"
     /\ c.kind = "github"
     /\ calls' = [calls EXCEPT ![p] =
          [c EXCEPT !.pc = "find", !.identifier = identifier,
                    !.data = GitHubSkillData(c, identifier)]]
     /\ UNCHANGED <<builtinToolLoading, invocations, probe, clock, skills, objects, fileRecords>>

\* findByIdentifier answers: update when it found a record, else create.
GitHubFind(p) ==
  LET c == calls[p]
      existing == findByIdentifier(skills, c.owner, c.identifier)
  IN /\ c.pc = "find"
     /\ c.kind = "github"
     /\ calls' = [calls EXCEPT ![p] =
          [c EXCEPT !.existing = existing,
                    !.pc = IF IsExisting(existing) THEN "update" ELSE "create"]]
     /\ UNCHANGED <<builtinToolLoading, invocations, probe, clock, skills, objects, fileRecords>>

\* skillModel.update(existing.id, data) settles.
GitHubUpdate(p) ==
  LET c == calls[p]
  IN /\ c.pc = "update"
     /\ \E up \in BOOLEAN :
          IF up
          THEN /\ skills' = StoreUpdate(skills, c.existing, c.data)
               /\ calls' = [calls EXCEPT ![p] =
                    [c EXCEPT !.pc = "done", !.updates = @ + 1,
                              !.returned = UpdatedRecord(RecordById(skills, c.existing),
                                                         c.data)]]
          ELSE /\ skills' = skills
               /\ calls' = [calls EXCEPT ![p] = Propagated(c, StoreUnavailable)]
     /\ UNCHANGED <<builtinToolLoading, invocations, probe, clock, objects, fileRecords>>

(***************************************************************************)
(* Specification.                                                          *)
(***************************************************************************)
Next ==
  \/ Tick
  \/ \E p \in CallIds, o \in Owners, i \in CreateInputs : createUserSkill(p, o, i)
  \/ \E p \in CallIds, o \in Owners, i \in ZipInputs : importFromZip(p, o, i)
  \/ \E p \in CallIds, o \in Owners, i \in GitHubInputs : importFromGitHub(p, o, i)
  \/ \E p \in CallIds : UserSkillFind(p)
  \/ \E p \in CallIds : Create(p)
  \/ \E p \in CallIds : ZipDownload(p)
  \/ \E p \in CallIds : ZipReadFile(p)
  \/ \E p \in CallIds : Parse(p)
  \/ \E p \in CallIds : StoreUpload(p)
  \/ \E p \in CallIds : StoreFileRecord(p)
  \/ \E p \in CallIds : ZipIdentify(p)
  \/ \E p \in CallIds : GitHubFetch(p)
  \/ \E p \in CallIds : GitHubIdentify(p)
  \/ \E p \in CallIds : GitHubFind(p)
  \/ \E p \in CallIds : GitHubUpdate(p)

Spec == Init /\ [][Next]_vars

(***************************************************************************)
(* The functions of the parser, the resolver and the resource service,     *)
(* each applied once to an input drawn at the start.                       *)
(***************************************************************************)
\* The author objects a frontmatter block can hold: 1 name only, 2 and 3 with a
\* good and a bad url, 4 without name, 5 with a key the schema does not declare.
AuthorValues ==
  << [name |-> <<"J">>],
     [name |-> <<"J">>, url |-> UrlRoot],
     [name |-> <<"J">>, url |-> <<"x">>],
     [url |-> UrlRoot],
     [name |-> <<"J">>, email |-> <<"e">>] >>

\* The key is left out of the object.
Absent == <<"absent">>

\* The data objects handed to validateManifest: every choice of the fields below,
\* each left out or set to one of its values.
FrontmatterChoices ==
  [name : {Absent, <<>>, <<"n">>, NumberValue},
   description : {Absent, <<>>, <<"d">>},
   gitUrl : {Absent, UrlRoot, <<"x">>},
   version : {Absent, <<"1">>, NumberValue},
   custom : {Absent, <<"c">>},
   author : 0..Len(AuthorValues)]

FrontmatterOf(choice) ==
  LET keys == {k \in {"name", "description", "gitUrl", "version", "custom"} :
                 choice[k] # Absent}
                \cup (IF choice.author = 0 THEN {} ELSE {"author"})
  IN [k \in keys |-> IF k = "author" THEN AuthorValues[choice.author] ELSE choice[k]]

ManifestProbes ==
  {[NoProbe EXCEPT !.fn = "validateManifest", !.data = FrontmatterOf(c)] :
     c \in FrontmatterChoices}

\* SKILL.md whose frontmatter block gray-matter cannot read.
ArchiveBadFrontmatter ==
  [id |-> 6, ok |-> TRUE,
   entries |-> <<[path |-> S_SKILL_md,
                  file |-> [id |-> 60, fm |-> "bad", data |-> EmptyObject, body |-> <<>>]]>>]

\* SKILL.md in my/, with a resource in a subdirectory, a directory marker, an
\* entry whose name holds the text __MACOSX, an entry of another directory and a
\* hidden entry at the root.
ArchiveMy ==
  [id |-> 8, ok |-> TRUE,
   entries |-> <<
     [path |-> <<"m", "y", "/">> \o S_SKILL_md,
      file |-> Doc(80, [name |-> <<"M">>, description |-> <<"d">>], <<"m">>)],
     [path |-> <<"m", "y", "/", "a", "/">>, file |-> Blob(81)],
     [path |-> <<"m", "y", "/", "a", "/", "x">>, file |-> Blob(82)],
     [path |-> <<"m", "y", "/", "v">> \o S_MACOSX, file |-> Blob(83)],
     [path |-> <<"o", "/", "i">>, file |-> Blob(84)],
     [path |-> <<".", "h">>, file |-> Blob(85)],
     [path |-> <<"m", "y", "/">> \o S_MACOSX \o <<"/", "k">>, file |-> Blob(86)] >>]

\* An archive whose first folder x/ has no skill; skills in r/axb/, r/c/ and q/,
\* and a SKILL.md at the root that comes last.
ArchiveDots ==
  [id |-> 9, ok |-> TRUE,
   entries |-> <<
     [path |-> <<"x", "/", "y">>, file |-> Blob(90)],
     [path |-> <<"r", "/", "a", "x", "b", "/">> \o S_SKILL_md,
      file |-> Doc(91, [name |-> <<"X">>, description |-> <<"d">>], <<"x">>)],
     [path |-> <<"r", "/", "c", "/">> \o S_SKILL_md,
      file |-> Doc(92, [name |-> <<"C">>, description |-> <<"d">>], <<"c">>)],
     [path |-> <<"q", "/">> \o S_SKILL_md,
      file |-> Doc(93, [name |-> <<"Q">>, description |-> <<"d">>], <<"q">>)],
     [path |-> S_SKILL_md,
      file |-> Doc(94, [name |-> <<"R">>, description |-> <<"d">>], <<"r">>)] >>]

ProbeArchives ==
  {Archives[i] : i \in 1..Len(Archives)}
    \cup {ArchiveBadFrontmatter, ArchiveRepo, ArchiveMy, ArchiveDots}

\* The basePath options: none, and the directories a, c, s and a.b.
ProbeHints == {Undefined, <<"a">>, <<"c">>, <<"s">>, <<"a", ".", "b">>}

\* parseZipPackage of one buffer, twice: with hint and with hint2.
ArchiveProbes ==
  {[NoProbe EXCEPT !.fn = "parseZipPackage", !.buffer = b, !.hint = h, !.hint2 = g] :
     b \in ProbeArchives, h \in ProbeHints, g \in ProbeHints}

\* The virtual paths trees are built from.
TreePaths ==
  {<<"a">>, <<"a", "/", "b">>, <<"a", "/", "c">>, <<"a", ".", "c">>,
   <<"b", "/", "d">>, <<"B">>}

\* The lists of up to MaxPaths distinct paths.
PathLists ==
  UNION {{l \in [1..n -> TreePaths] : \A i, j \in 1..n : l[i] = l[j] => i = j} :
           n \in 0..MaxPaths}

\* buildTree of a list of paths and of a reordering of it.
Reorderings ==
  {pair \in PathLists \X PathLists :
     /\ Len(pair[1]) = Len(pair[2])
     /\ {pair[1][i] : i \in 1..Len(pair[1])} = {pair[2][i] : i \in 1..Len(pair[2])}}

TreeProbes ==
  {[NoProbe EXCEPT !.fn = "buildTree", !.paths = pair[1], !.paths2 = pair[2]] :
     pair \in Reorderings}

\* The state readResource runs in: what earlier storeResources calls of the archive
\* '#1' with the resources 'r' and 's' left in the registry and in object storage.
StoredFile(id, path) ==
  [id |-> id, url |-> ResourceKey(Sha256(1), path), fileHash |-> Sha256(id)]
StoredObject(id, path) ==
  [key |-> ResourceKey(Sha256(1), path), file |-> Blob(id)]
Registries ==
  {<<>>, <<StoredFile(1, <<"r">>)>>, <<StoredFile(1, <<"r">>), StoredFile(2, <<"s">>)>>}
Storages == SUBSET {StoredObject(1, <<"r">>), StoredObject(2, <<"s">>)}

\* The mappings and paths readResource is called with.
ResourceIdMaps ==
  {<<>>,
   <<[path |-> <<"r">>, id |-> 1]>>,
   <<[path |-> <<"r">>, id |-> 2]>>,
   <<[path |-> <<"r">>, id |-> 3]>>,
   <<[path |-> <<"r">>, id |-> 1], [path |-> <<"s">>, id |-> 2]>>}
ReadPaths == {<<"r">>, <<"s">>, <<"t">>}
ReadProbes ==
  {[NoProbe EXCEPT !.fn = "readResource", !.resourceIds = ids, !.virtualPath = path] :
     ids \in ResourceIdMaps, path \in ReadPaths}

\* The references URLs are written from: owner and repository names, and after
\* them nothing, a branch, or a branch and a subdirectory.
RefOwners == {<<"a">>, <<"o", "-", "1">>}
RefRepos == {<<"b">>, <<"r", ".", "n">>}
RefTails ==
  {[form |-> "repo", branch |-> Undefined, path |-> Undefined],
   [form |-> "tree", branch |-> <<"m">>, path |-> Undefined],
   [form |-> "treePath", branch |-> <<"m">>, path |-> <<"c">>],
   [form |-> "treePath", branch |-> <<"f">>, path |-> <<"n", "/", "s">>]}
Refs ==
  {[form |-> t.form, owner |-> o, repo |-> r, branch |-> t.branch, path |-> t.path] :
     o \in RefOwners, r \in RefRepos, t \in RefTails}

\* What stands before 'owner/repo': nothing (the bare form) or the host, with or
\* without protocol.
Bare == <<>>
UrlPrefixes == {Bare, S_github_com \o <<"/">>, GH, S_http \o S_github_com \o <<"/">>}

\* The URL of a reference: <prefix>owner/repo[/tree/<branch>[/<subdirectory>]]
UrlOf(prefix, ref) ==
  prefix \o ref.owner \o <<"/">> \o ref.repo
    \o (IF ref.branch = Undefined THEN <<>>
        ELSE <<"/">> \o S_tree \o <<"/">> \o ref.branch)
    \o (IF ref.path = Undefined THEN <<>> ELSE <<"/">> \o ref.path)

\* The defaultBranch argument: left out, or 'd'.
BranchArgs == {Undefined, <<"d">>}

\* The accepted forms; the bare form has no /tree/ part.
FormProbes ==
  {[NoProbe EXCEPT !.fn = "parseRepoUrl", !.url = UrlOf(pr[1], pr[2]), !.ref = pr[2],
                   !.branchArg = b] :
     pr \in {pr \in UrlPrefixes \X Refs : pr[1] = Bare => pr[2].form = "repo"},
     b \in BranchArgs}

\* Inputs of another host, and inputs of no accepted form.
S_gitlab_com == <<"g", "i", "t", "l", "a", "b", ".", "c", "o", "m">>
S_notgithub_com == <<"n", "o", "t">> \o S_github_com
S_evil_example == <<"e", "v", "i", "l", ".", "e", "x", "a", "m", "p", "l", "e">>
S_owner == <<"o", "w", "n", "e", "r">>
S_repo == <<"r", "e", "p", "o">>
ForeignUrls ==
  {S_https \o S_gitlab_com \o <<"/">> \o S_owner \o <<"/">> \o S_repo,
   S_gitlab_com \o <<"/">> \o S_owner,
   S_https \o S_notgithub_com \o <<"/">> \o S_owner \o <<"/">> \o S_repo,
   S_https \o S_evil_example \o <<"/">> \o S_github_com \o <<"/">> \o S_owner
     \o <<"/">> \o S_repo,
   S_https \o S_gitlab_com \o <<"/">> \o S_owner \o <<"/">> \o S_repo \o <<"/">>
     \o S_tree \o <<"/", "m">>,
   S_gitlab_com \o <<"/">> \o S_owner \o <<"/">> \o S_repo}
MalformedUrls ==
  {<<"i", "n", "v", "a", "l", "i", "d", "-", "u", "r", "l">>,
   GH,
   <<>>,
   GH \o S_owner,
   GH \o S_owner \o <<"/">>,
   GH \o S_owner \o <<"/">> \o S_repo \o <<"/">>,
   GH \o S_owner \o <<"/">> \o S_repo \o <<"/">> \o S_tree,
   GH \o S_owner \o <<"/">> \o S_repo \o <<"/">> \o S_tree \o <<"/">>,
   GH \o S_owner \o <<"/">> \o S_repo \o <<"/", "b", "l", "o", "b", "/", "m">>,
   S_owner \o <<"/">> \o S_repo \o <<"/">> \o S_tree \o <<"/", "m">>}
RejectProbes ==
  {[NoProbe EXCEPT !.fn = "parseRepoUrl", !.url = u, !.branchArg = b,
                   !.ref = [NoRef EXCEPT !.form = "foreign"]] :
     u \in ForeignUrls, b \in BranchArgs}
  \cup
  {[NoProbe EXCEPT !.fn = "parseRepoUrl", !.url = u, !.branchArg = b,
                   !.ref = [NoRef EXCEPT !.form = "malformed"]] :
     u \in MalformedUrls, b \in BranchArgs}

\* The accepted forms with '.git' after the repository name; the reference keeps
\* the name without it.
DotGitForm(form) ==
  CASE form = "repo" -> "repoGit"
    [] form = "tree" -> "treeGit"
    [] OTHER -> "treePathGit"
DotGitProbes ==
  {[NoProbe EXCEPT !.fn = "parseRepoUrl",
                   !.url = UrlOf(pr[1], [pr[2] EXCEPT !.repo = @ \o S_dot_git]),
                   !.ref = [pr[2] EXCEPT !.form = DotGitForm(@)],
                   !.branchArg = b] :
     pr \in {pr \in UrlPrefixes \X Refs : pr[1] = Bare => pr[2].form = "repo"},
     b \in BranchArgs}

UrlProbes == FormProbes \cup RejectProbes \cup DotGitProbes

ProbeInit ==
  /\ builtinToolLoading = NoFlags
  /\ invocations = NoInvocations
  /\ clock = 0
  /\ skills = <<>>
  /\ calls = [p \in CallIds |-> IdleCall]
  /\ probe \in ManifestProbes \cup ArchiveProbes \cup TreeProbes \cup ReadProbes
                \cup UrlProbes
  /\ IF probe.fn = "readResource"
     THEN fileRecords \in Registries /\ objects \in Storages
     ELSE fileRecords = <<>> /\ objects = {}

Applies(fn) == probe.fn = fn /\ ~probe.done

\* validateManifest(data)
Validate ==
  /\ Applies("validateManifest")
  /\ probe' = [probe EXCEPT !.done = TRUE, !.validated = validateManifest(probe.data)]
  /\ UNCHANGED <<builtinToolLoading, invocations, clock, skills, objects, fileRecords, calls>>

\* parseZipPackage(buffer, { basePath: hint }), with the path its findSkillMd
\* selects.
ParseArchive ==
  /\ Applies("parseZipPackage")
  /\ probe' = [probe EXCEPT !.done = TRUE,
                            !.parsed = parseZipPackage(probe.buffer, probe.hint),
                            !.skillMdPath = findSkillMd(probe.buffer.entries, probe.hint)]
  /\ UNCHANGED <<builtinToolLoading, invocations, clock, skills, objects, fileRecords, calls>>

\* A second parseZipPackage of the same bytes, with hint2.
ParseArchiveAgain ==
  /\ probe.fn = "parseZipPackage"
  /\ probe.done
  /\ ~probe.again
  /\ probe' = [probe EXCEPT !.again = TRUE,
                            !.parsed2 = parseZipPackage(probe.buffer, probe.hint2)]
  /\ UNCHANGED <<builtinToolLoading, invocations, clock, skills, objects, fileRecords, calls>>

\* buildTree(paths)
BuildTree ==
  /\ Applies("buildTree")
  /\ probe' = [probe EXCEPT !.done = TRUE, !.tree = buildTree(probe.paths)]
  /\ UNCHANGED <<builtinToolLoading, invocations, clock, skills, objects, fileRecords, calls>>

\* buildTree of the same paths in the other order.
BuildTreeAgain ==
  /\ probe.fn = "buildTree"
  /\ probe.done
  /\ ~probe.again
  /\ probe' = [probe EXCEPT !.again = TRUE, !.tree2 = buildTree(probe.paths2)]
  /\ UNCHANGED <<builtinToolLoading, invocations, clock, skills, objects, fileRecords, calls>>

\* readResource(resourceIds, virtualPath)
ReadResource ==
  /\ Applies("readResource")
  /\ probe' = [probe EXCEPT !.done = TRUE,
                            !.read = readResource(probe.resourceIds, probe.virtualPath)]
  /\ UNCHANGED <<builtinToolLoading, invocations, clock, skills, objects, fileRecords, calls>>

\* parseRepoUrl(url, defaultBranch)
ParseUrl ==
  /\ Applies("parseRepoUrl")
  /\ probe' = [probe EXCEPT !.done = TRUE,
                            !.repoInfo = parseRepoUrl(probe.url, probe.branchArg)]
  /\ UNCHANGED <<builtinToolLoading, invocations, clock, skills, objects, fileRecords, calls>>

ProbeNext ==
  \/ Validate
  \/ ParseUrl
  \/ ReadResource
  \/ BuildTree
  \/ BuildTreeAgain
  \/ ParseArchive
  \/ ParseArchiveAgain

ProbeSpec == ProbeInit /\ [][ProbeNext]_vars

(***************************************************************************)
(* BuiltinToolActionImpl: the loading flags of the builtin-tool store.     *)
(***************************************************************************)
ToolIdentifiers == {<<"i">>}
ApiNames == {<<"a">>, <<"b">>}

\* `${identifier}/${apiName}`
ExecutorKey(identifier, apiName) == identifier \o <<"/">> \o apiName
ExecutorKeys == {ExecutorKey(i, a) : i \in ToolIdentifiers, a \in ApiNames}

\* builtinToolLoading[key] as a condition: a key the object does not have reads
\* undefined.
IsLoading(loading, key) == key \in DOMAIN loading /\ loading[key]

\* set({ builtinToolLoading: { [key]: value } }): set merges the partial state into
\* the state field by field, as it does for installedBuiltinTools, so the field
\* builtinToolLoading becomes the object with this one key.
toggleBuiltinToolLoading(loading, key, value) == [k \in {key} |-> value]

ToolInit ==
  /\ builtinToolLoading = NoFlags
  /\ invocations = NoInvocations
  /\ probe = NoProbe
  /\ clock = 0
  /\ skills = <<>>
  /\ objects = {}
  /\ fileRecords = <<>>
  /\ calls = [p \in CallIds |-> IdleCall]

\* invokeBuiltinTool up to the await of invokeExecutor.
invokeBuiltinTool(t, identifier, apiName) ==
  LET executorKey == ExecutorKey(identifier, apiName)
  IN /\ invocations[t].pc = "idle"
     /\ builtinToolLoading' = toggleBuiltinToolLoading(builtinToolLoading, executorKey, TRUE)
     /\ invocations' = [invocations EXCEPT ![t] =
          [@ EXCEPT !.pc = "running", !.kind = "invoke", !.key = executorKey]]
     /\ UNCHANGED <<probe, clock, skills, objects, fileRecords, calls>>

\* invokeExecutor settles: the result is returned, or the error is caught and a
\* result with success false is returned.
ExecutorSettles(t) ==
  /\ invocations[t].pc = "running"
  /\ invocations[t].kind = "invoke"
  /\ \E outcome \in {"returned", "threw"}, success \in BOOLEAN :
       /\ builtinToolLoading' =
            toggleBuiltinToolLoading(builtinToolLoading, invocations[t].key, FALSE)
       /\ invocations' = [invocations EXCEPT ![t] =
            [@ EXCEPT !.pc = "done", !.outcome = outcome,
                      !.success = IF outcome = "returned" THEN success ELSE FALSE]]
  /\ UNCHANGED <<probe, clock, skills, objects, fileRecords, calls>>

\* transformApiArgumentsToAiState up to the await of the action: it returns at once
\* when the flag of the key is set or the store has no action of that name.
transformApiArgumentsToAiState(t, key, hasAction) ==
  /\ invocations[t].pc = "idle"
  /\ IF IsLoading(builtinToolLoading, key) \/ ~hasAction
     THEN /\ builtinToolLoading' = builtinToolLoading
          /\ invocations' = [invocations EXCEPT ![t] =
               [@ EXCEPT !.pc = "done", !.kind = "transform", !.key = key,
                         !.outcome = "skipped"]]
     ELSE /\ builtinToolLoading' = toggleBuiltinToolLoading(builtinToolLoading, key, TRUE)
          /\ invocations' = [invocations EXCEPT ![t] =
               [@ EXCEPT !.pc = "running", !.kind = "transform", !.key = key]]
  /\ UNCHANGED <<probe, clock, skills, objects, fileRecords, calls>>

\* The action settles: its result is returned, or its error is thrown again.
ActionSettles(t) ==
  /\ invocations[t].pc = "running"
  /\ invocations[t].kind = "transform"
  /\ \E outcome \in {"returned", "threw"} :
       /\ builtinToolLoading' =
            toggleBuiltinToolLoading(builtinToolLoading, invocations[t].key, FALSE)
       /\ invocations' = [invocations EXCEPT ![t] =
            [@ EXCEPT !.pc = "done", !.outcome = outcome, !.success = outcome = "returned",
                      !.threw = outcome = "threw"]]
  /\ UNCHANGED <<probe, clock, skills, objects, fileRecords, calls>>

ToolNext ==
  \/ \E t \in ToolCallIds, i \in ToolIdentifiers, a \in ApiNames : invokeBuiltinTool(t, i, a)
  \/ \E t \in ToolCallIds : ExecutorSettles(t)
  \/ \E t \in ToolCallIds, k \in ExecutorKeys, hasAction \in BOOLEAN :
       transformApiArgumentsToAiState(t, k, hasAction)
  \/ \E t \in ToolCallIds : ActionSettles(t)

ToolSpec == ToolInit /\ [][ToolNext]_vars


(***************************************************************************)
(* Properties.                                                             *)
(***************************************************************************)
Failed(c) == c.pc = "failed"

Done(c) == c.pc = "done"

\* The call wrote nothing: no upload, no file record, no skill record.
WroteNothing(c) == c.uploads = 0 /\ c.resourceIds = <<>> /\ c.creates = 0 /\ c.updates = 0

\* A relative path leaves its base directory when, read from the left, '..' segments
\* outnumber the named segments before them.
EscapesBase(path) ==
  LET segs == Split(path, "/")
      ups(k) == Cardinality({i \in 1..k : segs[i] = <<".", ".">>})
      names(k) == Cardinality({i \in 1..k : segs[i] \notin {<<".", ".">>, <<".">>, <<>>}})
  IN \E k \in 1..Len(segs) : ups(k) > names(k)

HasMacOsSegment(path) == \E i \in 1..Len(Split(path, "/")) : Split(path, "/")[i] = S_MACOSX

PathSafe(path) ==
  /\ ~StartsWith(path, <<".">>)
  /\ ~HasMacOsSegment(path)
  /\ ~EscapesBase(path)

\* C1: path-safety of parseZipPackage. After every successful parse, no key of the
\* returned resources starts with '.', has a __MACOSX segment or resolves outside
\* the directory of the manifest.
C1_PathSafety ==
  \A p \in CallIds :
    calls[p].parsed.ok =>
      \A i \in 1..Len(calls[p].parsed.resources) : PathSafe(calls[p].parsed.resources[i].path)

ImportErrorCodes == {"CONFLICT", "INVALID_URL", "NOT_FOUND", "DOWNLOAD_FAILED", "FILE_NOT_FOUND"}

\* C2, as the specification states it: every failure that reaches the caller of
\* createUserSkill, importFromZip or importFromGitHub is a SkillImportError with one
\* of the five codes.
C2_OnlyImportErrors ==
  \A p \in CallIds :
    Failed(calls[p]) =>
      /\ calls[p].failure.kind = SkillImportError
      /\ calls[p].failure.code \in ImportErrorCodes

ResolverErrors == {GitHubParseError, GitHubNotFoundError, GitHubDownloadError, "TypeError"}

\* C2, amended: the errors of the resolver (GitHubParseError of parseRepoUrl, every
\* error of downloadRepoZip) reach the caller as a SkillImportError, and every
\* SkillImportError carries one of the codes CONFLICT, INVALID_URL, NOT_FOUND,
\* DOWNLOAD_FAILED; the errors of the other layers (file download, file read,
\* SkillParseError, SkillManifestError, resource storage, record store) reach the
\* caller as they were thrown.
C2_ResolverErrorsTranslated ==
  \A p \in CallIds :
    Failed(calls[p]) =>
      /\ calls[p].failure.kind = SkillImportError =>
           calls[p].failure.code \in ImportErrorCodes \ {"FILE_NOT_FOUND"}
      /\ calls[p].raised \in ResolverErrors => calls[p].failure.kind = SkillImportError
      /\ calls[p].raised \notin ResolverErrors \cup {NoError} =>
           calls[p].failure = [kind |-> calls[p].raised, code |-> "none"]
      /\ calls[p].failure.kind \notin ResolverErrors

\* C2 witness: a fetch that failed with a network error was reported as a
\* SkillImportError with code DOWNLOAD_FAILED.
C2_Witness ==
  \E p \in CallIds :
    /\ Failed(calls[p])
    /\ calls[p].raised = "TypeError"
    /\ calls[p].failure = ImportError("DOWNLOAD_FAILED")

\* C3: once importFromZip has its temporary file, cleanup() runs exactly once before
\* the call settles, whatever the exit; it never runs twice.
C3_CleanupExactlyOnce ==
  \A p \in CallIds :
    calls[p].kind = "zip" =>
      /\ calls[p].cleanups <= 1
      /\ (Settled(calls[p]) /\ calls[p].tempFile # "none") => calls[p].cleanups = 1
      /\ calls[p].tempFile = "present" => calls[p].cleanups = 0

\* C3 witness: an import whose archive did not parse has settled, its file removed.
C3_Witness ==
  \E p \in CallIds :
    /\ calls[p].kind = "zip"
    /\ Failed(calls[p])
    /\ calls[p].failure.kind = SkillManifestError
    /\ calls[p].tempFile = "removed"
    /\ calls[p].cleanups = 1

\* C4: importFromGitHub rejects with INVALID_URL when the URL does not parse, with
\* NOT_FOUND when the fetch answers 404 and with DOWNLOAD_FAILED for every other
\* fetch failure, and has then stored no resource and written no skill record.
C4_GitHubErrorMapping ==
  \A p \in CallIds :
    calls[p].kind = "github" =>
      /\ ~parseRepoUrl(calls[p].input.gitUrl, calls[p].input.branch).ok =>
           /\ Failed(calls[p])
           /\ calls[p].failure = ImportError("INVALID_URL")
           /\ calls[p].fetched = "none"
           /\ WroteNothing(calls[p])
      /\ calls[p].fetched = "404" =>
           /\ Failed(calls[p])
           /\ calls[p].failure = ImportError("NOT_FOUND")
           /\ WroteNothing(calls[p])
      /\ calls[p].fetched \in {"500", "network"} =>
           /\ Failed(calls[p])
           /\ calls[p].failure = ImportError("DOWNLOAD_FAILED")
           /\ WroteNothing(calls[p])

\* C4 witness: a fetch answered 404 and the call rejected with NOT_FOUND.
C4_Witness ==
  \E p \in CallIds :
    /\ calls[p].kind = "github"
    /\ calls[p].fetched = "404"
    /\ calls[p].failure = ImportError("NOT_FOUND")


\* The owner's records under an identifier.
RecordsOf(owner, identifier) ==
  {i \in 1..Len(skills) : skills[i].owner = owner /\ skills[i].identifier = identifier}

\* q is a later import of the URL p imported, by the same owner, both done.
Reimport(p, q) ==
  /\ calls[p].kind = "github" /\ calls[q].kind = "github"
  /\ Done(calls[p]) /\ Done(calls[q])
  /\ p \in calls[q].after
  /\ calls[p].owner = calls[q].owner
  /\ calls[p].input.gitUrl = calls[q].input.gitUrl

\* C5: when an owner imports the same URL twice with importFromGitHub, the second
\* call updates the record of the first: it creates nothing, the record keeps its id
\* and identifier, there is exactly one record with that identifier, and content,
\* manifest, resources and archive hash are those of the second import.
C5_ReimportUpdates ==
  \A p, q \in CallIds :
    Reimport(p, q) =>
      LET c == calls[q]
      IN /\ c.updates = 1 /\ c.creates = 0
         /\ c.returned.id = calls[p].returned.id
         /\ c.returned.identifier = calls[p].returned.identifier
         /\ Cardinality(RecordsOf(c.owner, c.returned.identifier)) = 1
         /\ c.returned.content = c.parsed.content
         /\ c.returned.manifest = FullManifest(c.parsed.manifest, c.input, c.repoInfo)
         /\ c.returned.resources = c.resourceIds
         /\ c.returned.zipFileHash = c.parsed.zipHash

\* C5 witness: a second import of a URL, from another archive and with another
\* branch input, is done.
C5_Witness ==
  \E p, q \in CallIds :
    /\ Reimport(p, q)
    /\ calls[p].parsed.zipHash # calls[q].parsed.zipHash
    /\ calls[p].input.branch # calls[q].input.branch
    /\ calls[q].returned.zipFileHash = calls[q].parsed.zipHash

\* github.<owner>.<repo>[.<subdirectory with every '/' replaced by '.'>]
IdentifierWithSubdirectory(repoInfo) ==
  S_github \o <<".">> \o repoInfo.owner \o <<".">> \o repoInfo.repo
    \o (IF repoInfo.path = Undefined THEN <<>>
        ELSE <<".">> \o ReplaceAll(repoInfo.path, "/", "."))

\* C6: importFromGitHub persists under github.<owner>.<repo> when the reference has
\* no subdirectory and under github.<owner>.<repo>.<subdirectory, '/' as '.'> when it
\* has one.
C6_IdentifierNamesSubdirectory ==
  \A p \in CallIds :
    (calls[p].kind = "github" /\ calls[p].identifier # <<>>) =>
      calls[p].identifier = IdentifierWithSubdirectory(calls[p].repoInfo)

\* C7: two references that differ in owner, repo or subdirectory never get the same
\* identifier from importFromGitHub.
C7_DistinctReferencesDistinctIdentifiers ==
  \A p, q \in CallIds :
    (/\ calls[p].kind = "github" /\ calls[q].kind = "github"
     /\ calls[p].identifier # <<>> /\ calls[q].identifier # <<>>
     /\ <<calls[p].repoInfo.owner, calls[p].repoInfo.repo, calls[p].repoInfo.path>>
          # <<calls[q].repoInfo.owner, calls[q].repoInfo.repo, calls[q].repoInfo.path>>)
      => calls[p].identifier # calls[q].identifier

\* C8: any two importFromZip calls of an owner got distinct generated identifiers,
\* also when both read the same clock value.
C8_DistinctImportIdentifiers ==
  \A p, q \in CallIds :
    (/\ p # q
     /\ calls[p].kind = "zip" /\ calls[q].kind = "zip"
     /\ calls[p].owner = calls[q].owner
     /\ calls[p].identifier # <<>> /\ calls[q].identifier # <<>>)
      => calls[p].identifier # calls[q].identifier

\* C9: the record store never holds two records of an owner with the same
\* identifier, however the lookups and creates of concurrent calls interleave.
C9_UniqueIdentifiers ==
  \A i, j \in 1..Len(skills) :
    (skills[i].owner = skills[j].owner /\ skills[i].identifier = skills[j].identifier)
      => i = j

\* C9 witness: two calls for the same identifier both found no record; the create of
\* one was accepted and the create of the other rejected by the store.
C9_Witness ==
  \E p, q \in CallIds :
    /\ p # q
    /\ calls[p].kind = calls[q].kind
    /\ calls[p].kind \in {"create", "github"}
    /\ calls[p].identifier = calls[q].identifier
    /\ Done(calls[p]) /\ calls[p].creates = 1
    /\ Failed(calls[q]) /\ calls[q].raised = UniqueViolation /\ calls[q].existing = 0
    /\ Cardinality(RecordsOf(calls[p].owner, calls[p].identifier)) = 1

\* The call created exactly one record, under its identifier and with source 'user'.
CreatedUserRecord(c) ==
  /\ Done(c)
  /\ c.creates = 1
  /\ c.returned.identifier = c.identifier
  /\ c.returned.source = "user"
  /\ Cardinality(RecordsOf(c.owner, c.identifier)) = 1

\* The call failed with CONFLICT and wrote nothing.
FailedWithConflict(c) ==
  /\ Failed(c)
  /\ c.failure = ImportError("CONFLICT")
  /\ c.creates = 0 /\ c.updates = 0

\* C10, as the specification states it: createUserSkill fails with CONFLICT when a
\* record with its identifier exists, and otherwise creates exactly one record with
\* that identifier and source 'user' (calls the store did not answer are left out).
C10_ConflictOrCreated ==
  \A p \in CallIds :
    (calls[p].kind = "create" /\ Settled(calls[p]) /\ calls[p].raised # StoreUnavailable) =>
      IF calls[p].existing # 0
      THEN FailedWithConflict(calls[p])
      ELSE CreatedUserRecord(calls[p])

\* C10, amended: createUserSkill fails with CONFLICT when its lookup finds a record
\* with its identifier, and then writes nothing; when the lookup finds none it
\* creates exactly one record with that identifier and source 'user', unless the
\* store rejects the create (another call created the identifier after the lookup,
\* or the store failed): then the call fails with the error of the store and has
\* created nothing.
C10_ConflictAtLookup ==
  \A p \in CallIds :
    (calls[p].kind = "create" /\ Settled(calls[p])) =>
      IF calls[p].existing # 0
      THEN FailedWithConflict(calls[p])
      ELSE \/ CreatedUserRecord(calls[p])
           \/ /\ Failed(calls[p])
              /\ calls[p].raised = UniqueViolation
              /\ calls[p].failure.kind = UniqueViolation
              /\ calls[p].creates = 0
              /\ \E q \in CallIds \ {p} :
                   /\ calls[q].creates = 1
                   /\ calls[q].returned.identifier = calls[p].identifier
           \/ /\ Failed(calls[p])
              /\ calls[p].raised = StoreUnavailable
              /\ calls[p].failure.kind = StoreUnavailable
              /\ calls[p].creates = 0

\* C10 witness: one call created the identifier, a later call found it and failed
\* with CONFLICT.
C10_Witness ==
  \E p, q \in CallIds :
    /\ calls[p].kind = "create" /\ calls[q].kind = "create"
    /\ CreatedUserRecord(calls[p])
    /\ calls[q].existing = calls[p].returned.id
    /\ FailedWithConflict(calls[q])


\* name and description are non-empty text.
RequiredPresent(data) ==
  /\ "name" \in DOMAIN data /\ IsString(data["name"]) /\ data["name"] # <<>>
  /\ "description" \in DOMAIN data
  /\ IsString(data["description"])
  /\ data["description"] # <<>>

\* name or description is missing or the empty string.
RequiredMissing(data) ==
  \E f \in {"name", "description"} : f \notin DOMAIN data \/ data[f] = <<>>

\* author.url, repository and gitUrl, where present, are well-formed URLs.
UrlsWellFormed(data) ==
  /\ \A f \in {"repository", "gitUrl"} \cap DOMAIN data : IsUrl(data[f])
  /\ ("author" \in DOMAIN data /\ "url" \in DOMAIN data["author"]) =>
       IsUrl(data["author"]["url"])

\* The declared optional fields, where present, have their declared types: author
\* is an object with a text name, version and license are text.
OptionalsTyped(data) ==
  /\ "author" \in DOMAIN data =>
       "name" \in DOMAIN data["author"] /\ IsString(data["author"]["name"])
  /\ \A f \in {"version", "license"} \cap DOMAIN data : IsString(data[f])

Validated == probe.fn = "validateManifest" /\ probe.done

\* C11, as the specification states it: when name and description are non-empty
\* text and the URL fields are well-formed, validateManifest succeeds and returns
\* every field unchanged; when name or description is missing or empty it fails
\* with SkillManifestError and returns no manifest.
C11_ValidByRequiredFields ==
  Validated =>
    /\ (RequiredPresent(probe.data) /\ UrlsWellFormed(probe.data)) =>
         /\ probe.validated.ok
         /\ probe.validated.manifest = probe.data
    /\ RequiredMissing(probe.data) =>
         /\ ~probe.validated.ok
         /\ probe.validated.error = SkillManifestError
         /\ probe.validated.manifest = EmptyObject

\* C11, amended: validateManifest succeeds exactly when name and description are
\* non-empty text, the URL fields present are well-formed and the declared optional
\* fields present have their declared types; it then returns every top-level field,
\* the unrecognized ones included, unchanged, and of author the keys name and url.
\* In every other case it fails with SkillManifestError and returns no manifest.
C11_ValidBySchema ==
  Validated =>
    LET data == probe.data
        out == probe.validated
    IN IF RequiredPresent(data) /\ UrlsWellFormed(data) /\ OptionalsTyped(data)
       THEN /\ out.ok
            /\ DOMAIN out.manifest = DOMAIN data
            /\ \A k \in (DOMAIN data) \ {"author"} : out.manifest[k] = data[k]
            /\ "author" \in DOMAIN data =>
                 /\ DOMAIN out.manifest["author"] = (DOMAIN data["author"]) \cap {"name", "url"}
                 /\ \A j \in DOMAIN out.manifest["author"] :
                      out.manifest["author"][j] = data["author"][j]
       ELSE /\ ~out.ok
            /\ out.error = SkillManifestError
            /\ out.manifest = EmptyObject

\* C11 witness: a manifest with an unrecognized field and a well-formed gitUrl was
\* accepted and came back with both.
C11_Witness ==
  /\ Validated
  /\ probe.validated.ok
  /\ "custom" \in DOMAIN probe.validated.manifest
  /\ "gitUrl" \in DOMAIN probe.validated.manifest
  /\ probe.validated.manifest["custom"] = <<"c">>


ParsedArchive == probe.fn = "parseZipPackage" /\ probe.done

\* No package: no content, no manifest, no resources, no hash.
NoPackage(r) ==
  /\ ~r.ok
  /\ r.content = <<>>
  /\ r.manifest = EmptyObject
  /\ r.resources = <<>>
  /\ r.zipHash = Undefined

\* The places a manifest is looked for: SKILL.md at the root, in a first-level
\* directory, or in the directory hint under one leading segment.
RecognizedLocation(path, hint) ==
  LET segs == Split(path, "/")
  IN \/ path = S_SKILL_md
     \/ Len(segs) = 2 /\ segs[1] # <<>> /\ segs[2] = S_SKILL_md
     \/ /\ hint # Undefined
        /\ Len(path) > Len(hint) + Len(S_SKILL_md) + 2
        /\ EndsWith(path, <<"/">> \o hint \o <<"/">> \o S_SKILL_md)
        /\ IndexOf(path, "/") = Len(path) - Len(hint) - Len(S_SKILL_md) - 1

HasRecognizedManifest(buffer, hint) ==
  \E i \in 1..Len(buffer.entries) : RecognizedLocation(buffer.entries[i].path, hint)

\* C12: parseZipPackage fails with SkillParseError on bytes that are no archive
\* and on an archive with no SKILL.md at a recognized location, with
\* SkillParseError when the located SKILL.md cannot be read, and with
\* SkillManifestError, not wrapped, when its manifest violates the schema; a failed
\* call returns no package.
C12_TypedFailures ==
  ParsedArchive =>
    LET b == probe.buffer
        r == probe.parsed
        located == Lookup(b.entries, findSkillMd(b.entries, probe.hint))
    IN /\ ~b.ok => NoPackage(r) /\ r.error = SkillParseError
       /\ (b.ok /\ ~HasRecognizedManifest(b, probe.hint)) =>
            NoPackage(r) /\ r.error = SkillParseError
       /\ (b.ok /\ HasRecognizedManifest(b, probe.hint)) =>
            /\ located.fm = "bad" => NoPackage(r) /\ r.error = SkillParseError
            /\ (located.fm # "bad" /\ ~RequiredPresent(located.data)) =>
                 NoPackage(r) /\ r.error = SkillManifestError
            /\ (located.fm # "bad" /\ RequiredPresent(located.data)) => r.ok
       /\ ~r.ok => NoPackage(r) /\ r.error \in {SkillParseError, SkillManifestError}

\* C12 witness: an archive whose SKILL.md has no description failed with
\* SkillManifestError.
C12_Witness ==
  /\ ParsedArchive
  /\ probe.buffer.ok
  /\ HasRecognizedManifest(probe.buffer, probe.hint)
  /\ probe.parsed.error = SkillManifestError
  /\ NoPackage(probe.parsed)


\* The entries that belong in the resources of a package whose manifest is at
\* skillMdPath: those under its directory, without the manifest, the directory
\* markers, the dot-prefixed entries and the entries with a __MACOSX segment, keyed
\* by the path relative to the directory.
ExpectedResources(entries, skillMdPath) ==
  LET dir == SubSeq(skillMdPath, 1, LastIndexOf(skillMdPath, "/"))
      rel(path) == Slice(path, Len(dir) + 1)
  IN {[path |-> rel(entries[i].path), file |-> entries[i].file] :
        i \in {j \in 1..Len(entries) :
                 /\ StartsWith(entries[j].path, dir)
                 /\ entries[j].path # skillMdPath
                 /\ ~EndsWith(entries[j].path, <<"/">>)
                 /\ rel(entries[j].path) # <<>>
                 /\ ~StartsWith(rel(entries[j].path), <<".">>)
                 /\ ~HasMacOsSegment(entries[j].path)}}

\* C13: the resources parseZipPackage returns are exactly the archive entries under
\* the directory of the manifest, other than the manifest, directory markers,
\* dot-prefixed entries and entries with a __MACOSX segment, each under its relative
\* path and with its bytes; an entry whose name only contains the text __MACOSX is
\* kept.
C13_ExactResources ==
  (ParsedArchive /\ probe.parsed.ok) =>
    {probe.parsed.resources[i] : i \in 1..Len(probe.parsed.resources)}
      = ExpectedResources(probe.buffer.entries,
                          findSkillMd(probe.buffer.entries, probe.hint))


ParsedTwice == probe.fn = "parseZipPackage" /\ probe.done /\ probe.again

\* C14: two parseZipPackage calls on the same bytes return the same zipHash, also
\* when their basePath options differ and they find different manifests and
\* resources.
C14_HashOfBytesOnly ==
  (ParsedTwice /\ probe.parsed.ok /\ probe.parsed2.ok) =>
    /\ probe.parsed.zipHash = probe.parsed2.zipHash
    /\ probe.parsed.zipHash # Undefined

\* C14 witness: one archive parsed with two hints gave two manifests and two sets
\* of resources, and one hash.
C14_Witness ==
  /\ ParsedTwice
  /\ probe.parsed.ok /\ probe.parsed2.ok
  /\ probe.hint # probe.hint2
  /\ probe.parsed.manifest # probe.parsed2.manifest
  /\ probe.parsed.resources # probe.parsed2.resources
  /\ probe.parsed.zipHash = probe.parsed2.zipHash


BuiltTwice == probe.fn = "buildTree" /\ probe.done /\ probe.again

\* The number of given paths that sort before path.
Rank(paths, path) == Cardinality({i \in 1..Len(paths) : Less(paths[i], path)})

\* The given path leads through the node at nodePath.
LeadsThrough(path, nodePath) ==
  path = nodePath \/ StartsWith(path, nodePath \o <<"/">>)

\* The place of a node among its siblings: the rank of the first path, in sorted
\* order, that leads through it.
FirstUse(paths, nodePath) ==
  LET ranks == {Rank(paths, paths[i]) :
                  i \in {j \in 1..Len(paths) : LeadsThrough(paths[j], nodePath)}}
  IN CHOOSE r \in ranks : \A q \in ranks : r <= q

InSortedOrder(paths, siblings) ==
  \A i \in 1..(Len(siblings) - 1) :
    FirstUse(paths, siblings[i]) <= FirstUse(paths, siblings[i + 1])

\* C15: buildTree returns the same tree for every two orderings of a set of paths:
\* same nodes, same nesting, same order of siblings, the siblings in the order in
\* which the sorted paths first lead through them.
C15_OrderIndependent ==
  BuiltTwice =>
    /\ probe.tree = probe.tree2
    /\ InSortedOrder(probe.paths, probe.tree.root)
    /\ \A n \in DOMAIN probe.tree.nodes :
         probe.tree.nodes[n].type = "directory" =>
           InSortedOrder(probe.paths, probe.tree.nodes[n].children)

\* C15 witness: three paths given in two different orders, with a directory of two
\* children, gave one tree.
C15_Witness ==
  /\ BuiltTwice
  /\ Len(probe.paths) = MaxPaths
  /\ probe.paths # probe.paths2
  /\ probe.paths # SortedPaths(probe.paths)
  /\ \E n \in DOMAIN probe.tree.nodes :
       probe.tree.nodes[n].type = "directory" /\ Len(probe.tree.nodes[n].children) = 2
  /\ probe.tree = probe.tree2


\* 'skills/source_files/<archiveHash>/<virtualPath>'
SourceFilesKey(zipHash, virtualPath) ==
  S_skills \o <<"/", "s", "o", "u", "r", "c", "e", "_", "f", "i", "l", "e", "s", "/">>
    \o zipHash \o <<"/">> \o virtualPath

\* storeResources has returned to the call.
StoredResources(c) ==
  c.parsed.ok /\ c.pc \in {"identify", "find", "create", "update", "done"}

\* C16: when storeResources has succeeded, the mapping it returned has the virtual
\* paths of the resources as keys, each mapped to the id of its file record; each
\* resource was uploaded under skills/source_files/<zipHash>/<virtualPath> and its
\* file record has that key as url; without resources there is no upload.
C16_StoredUnderSourceFiles ==
  \A p \in CallIds :
    StoredResources(calls[p]) =>
      LET c == calls[p]
      IN /\ {c.resourceIds[i].path : i \in 1..Len(c.resourceIds)}
              = {c.parsed.resources[i].path : i \in 1..Len(c.parsed.resources)}
         /\ c.uploads = Len(c.parsed.resources)
         /\ \A i \in 1..Len(c.resourceIds) :
              LET key == SourceFilesKey(c.parsed.zipHash, c.resourceIds[i].path)
              IN /\ c.resourceIds[i].id \in 1..Len(fileRecords)
                 /\ fileRecords[c.resourceIds[i].id].url = key
                 /\ \E o \in objects : o.key = key /\ o.file = c.parsed.resources[i].file


\* readResource has run.
ReadDone == probe.fn = "readResource" /\ probe.done

\* The path is a key of the mapping.
IsKey == \E i \in 1..Len(probe.resourceIds) : probe.resourceIds[i].path = probe.virtualPath

\* The records of the registry whose id the mapping holds for the path.
BackingRecords ==
  {fileRecords[j] : j \in {j \in 1..Len(fileRecords) :
     \E i \in 1..Len(probe.resourceIds) :
        /\ probe.resourceIds[i].path = probe.virtualPath
        /\ probe.resourceIds[i].id = fileRecords[j].id}}

\* C17: readResource fails with SkillResourceError when the path is not a key of
\* resourceIds and when the mapped id has no file record, and reads nothing from
\* object storage in either case; otherwise it reads once, and returns the content
\* stored at the url of the backing record.
C17_ReadOrResourceError ==
  ReadDone =>
    IF ~IsKey \/ BackingRecords = {}
    THEN /\ ~probe.read.ok
         /\ probe.read.error = "SkillResourceError"
         /\ probe.read.reads = 0
    ELSE /\ probe.read.reads = 1
         /\ \A f \in BackingRecords : \A o \in objects :
              o.key = f.url => probe.read.ok /\ probe.read.content = o.file

\* The mapping holds an id for the path, the registry has no record of it, and
\* readResource has failed.
C17_Witness == ReadDone /\ IsKey /\ BackingRecords = {} /\ ~probe.read.ok

\* The other two cases: a path that is no key, and a read that returned content.
C17_WitnessNoKey == ReadDone /\ ~IsKey /\ ~probe.read.ok
C17_WitnessContent ==
  ReadDone /\ probe.read.ok /\ probe.read.content = Blob(2) /\ probe.virtualPath = <<"s">>


\* parseRepoUrl has run.
ParsedUrl == probe.fn = "parseRepoUrl" /\ probe.done

\* parseRepoUrl has run on a URL of one of the accepted forms.
ParsedForm == ParsedUrl /\ probe.ref.form \in {"repo", "tree", "treePath"}

\* The defaultBranch in force: the argument, 'main' when it is left out.
DefaultBranch == IF probe.branchArg = Undefined THEN S_main ELSE probe.branchArg

ParsedReject == ParsedUrl /\ probe.ref.form \in {"foreign", "malformed"}

\* C19: parseRepoUrl throws GitHubParseError, and returns no repository, for every
\* input whose host is not github.com and for every input whose segments match
\* none of the accepted forms.
C19_RejectsForeignAndMalformed ==
  ParsedReject => ~probe.repoInfo.ok

\* What holds of them in the code: every malformed input is rejected, and so is
\* every input of another host in which no 'github.com/owner/repo' can be found
\* and which is not 'word/word'.
C19_RejectsMalformed ==
  ParsedUrl /\ probe.ref.form = "malformed" => ~probe.repoInfo.ok


\* parseRepoUrl has run on a URL with a /tree/ part.
ParsedTree == ParsedUrl /\ probe.ref.form \in {"tree", "treePath"}

\* The text of the URL after the first '/tree/'.
AfterTree ==
  LET lit == <<"/">> \o S_tree \o <<"/">>
      at == CHOOSE j \in 1..Len(probe.url) :
              /\ j + Len(lit) - 1 <= Len(probe.url)
              /\ SubSeq(probe.url, j, j + Len(lit) - 1) = lit
              /\ \A k \in 1..(j - 1) :
                   ~(k + Len(lit) - 1 <= Len(probe.url)
                     /\ SubSeq(probe.url, k, k + Len(lit) - 1) = lit)
  IN Slice(probe.url, at + Len(lit))

ParsedDotGit == ParsedUrl /\ probe.ref.form \in {"repoGit", "treeGit", "treePathGit"}

\* C21: every accepted form is accepted with a trailing '.git' as well, and the repo
\* of the result is the repository name without that suffix, for the bare form
\* 'owner/repo.git' as for 'https://github.com/owner/repo.git'.
C21_DotGitStripped ==
  ParsedDotGit =>
    /\ probe.repoInfo.ok
    /\ probe.repoInfo.owner = probe.ref.owner
    /\ probe.repoInfo.repo = probe.ref.repo
    /\ ~EndsWith(probe.repoInfo.repo, S_dot_git)

\* The same for the URLs that name the host: there the suffix is stripped.
C21_DotGitStrippedAfterHost ==
  ParsedDotGit /\ ~IsShorthand(probe.url) =>
    /\ probe.repoInfo.ok
    /\ probe.repoInfo.repo = probe.ref.repo


\* The step in which importFromGitHub of call p has its record written.
GitHubWrites(p) ==
  /\ calls[p].kind = "github"
  /\ calls[p].pc \in {"create", "update"}
  /\ calls'[p].pc = "done"

\* The record of the owner with the identifier, as the store holds it after the step.
WrittenRecord(p) ==
  CHOOSE r \in {skills'[i] : i \in 1..Len(skills')} :
    r.owner = calls[p].owner /\ r.identifier = calls[p].identifier

Provenance == {"gitUrl", "repository"}

\* C22: the manifest importFromGitHub persists, creating and updating, is the parsed
\* manifest with gitUrl set to the input URL and repository set to
\* 'https://github.com/<owner>/<repo>', whatever the parsed manifest says of these
\* two; every other parsed field, custom ones included, is unchanged and no other
\* field is added.
C22_ManifestWithProvenance ==
  [][\A p \in CallIds :
       GitHubWrites(p) =>
         LET c == calls[p]
             written == WrittenRecord(p).manifest
         IN /\ DOMAIN written = (DOMAIN c.parsed.manifest) \cup Provenance
            /\ written["gitUrl"] = c.input.gitUrl
            /\ written["repository"] =
                 GH \o c.repoInfo.owner \o <<"/">> \o c.repoInfo.repo
            /\ \A k \in (DOMAIN c.parsed.manifest) \ Provenance :
                 written[k] = c.parsed.manifest[k]
            /\ calls'[p].returned.manifest = written]_vars

\* An import has updated a record from an archive whose manifest has a custom field
\* and a gitUrl other than the input URL.
C22_Witness ==
  \E p \in CallIds :
    /\ calls[p].kind = "github"
    /\ calls[p].pc = "done"
    /\ calls[p].updates = 1
    /\ "gitUrl" \in DOMAIN calls[p].parsed.manifest
    /\ calls[p].parsed.manifest["gitUrl"] # calls[p].input.gitUrl
    /\ calls[p].returned.manifest["gitUrl"] = calls[p].input.gitUrl
    /\ calls[p].returned.manifest["custom"] = <<"c">>


\* createUserSkill of call p has returned its record.
CreatedByUser(p) == calls[p].kind = "create" /\ calls[p].pc = "done"

\* C23: the record createUserSkill persists has the name, description and content of
\* the input, and its manifest has exactly the two fields name and description,
\* with the values of the input.
C23_MinimalManifest ==
  \A p \in CallIds :
    CreatedByUser(p) =>
      LET c == calls[p]
      IN /\ c.returned.name = c.input.name
         /\ c.returned.description = c.input.description
         /\ c.returned.content = c.input.content
         /\ DOMAIN c.returned.manifest = {"name", "description"}
         /\ c.returned.manifest["name"] = c.input.name
         /\ c.returned.manifest["description"] = c.input.description

\* What the code does write: name, description and content of the input, and a
\* manifest with the name only.
C23_RecordFromInput ==
  \A p \in CallIds :
    CreatedByUser(p) =>
      LET c == calls[p]
      IN /\ c.returned.name = c.input.name
         /\ c.returned.description = c.input.description
         /\ c.returned.content = c.input.content
         /\ c.returned.manifest = [name |-> c.input.name]


\* The paths of the entries of the probed archive, in the order of the archive.
EntryPaths == [i \in 1..Len(probe.buffer.entries) |-> probe.buffer.entries[i].path]

\* The root prefix: the first path segment seen among the entries, with its slash.
RootPrefixes ==
  {SubSeq(EntryPaths[i], 1, IndexOf(EntryPaths[i], "/")) :
     i \in {j \in 1..Len(EntryPaths) :
              /\ IndexOf(EntryPaths[j], "/") > 1
              /\ \A k \in 1..(j - 1) : IndexOf(EntryPaths[k], "/") <= 1}}

\* The entries each rule selects, the directory being literally the hint.
RuleA ==
  {EntryPaths[i] : i \in {j \in 1..Len(EntryPaths) :
     /\ probe.hint # Undefined
     /\ \E root \in RootPrefixes :
          EntryPaths[j] = root \o probe.hint \o <<"/">> \o S_SKILL_md}}
RuleB ==
  {EntryPaths[i] : i \in {j \in 1..Len(EntryPaths) :
     /\ probe.hint # Undefined
     /\ LET segs == Split(EntryPaths[j], "/")
        IN /\ Len(segs) >= 3
           /\ segs[1] # <<>>
           /\ EntryPaths[j] = segs[1] \o <<"/">> \o probe.hint \o <<"/">> \o S_SKILL_md}}
RuleC == {EntryPaths[i] : i \in {j \in 1..Len(EntryPaths) : EntryPaths[j] = S_SKILL_md}}
RuleD ==
  {EntryPaths[i] : i \in {j \in 1..Len(EntryPaths) :
     LET segs == Split(EntryPaths[j], "/")
     IN Len(segs) = 2 /\ segs[1] # <<>> /\ segs[2] = S_SKILL_md}}

\* The manifest entry is one of those of the first rule that selects any.
SelectedByFirstRule(path) ==
  IF RuleA # {} THEN path \in RuleA
  ELSE IF RuleB # {} THEN path \in RuleB
  ELSE IF RuleC # {} THEN path \in RuleC
  ELSE IF RuleD # {} THEN path \in RuleD
  ELSE path = Undefined

\* C24: the manifest entry findSkillMd selects is the one of the first rule that
\* matches, in the order (a) '<root prefix><hint>/SKILL.md', (b)
\* '<one segment>/<hint>/SKILL.md', (c) 'SKILL.md' at the root, (d) '*/SKILL.md'
\* at the first level; (a) and (b) apply with a hint only and select only entries
\* whose directory is literally the hint; without a hint the root-level SKILL.md
\* wins over every nested one, wherever it stands in the archive.
C24_FirstRuleWins ==
  ParsedArchive /\ probe.buffer.ok => SelectedByFirstRule(probe.skillMdPath)

\* The same for the hints in which no character has a meaning of its own in a
\* regular expression: there the order of the rules is kept.
C24_FirstRuleWinsForPlainHints ==
  (ParsedArchive /\ probe.buffer.ok
     /\ (probe.hint = Undefined \/ \A i \in 1..Len(probe.hint) : probe.hint[i] # "."))
    => SelectedByFirstRule(probe.skillMdPath)


\* The manifest entry of the subdirectory the URL of call p points at, in the
\* archive the call fetched: '<archive folder>/<subdirectory>/SKILL.md'.
SubdirectoryFolder(c) ==
  SubSeq(c.zipBuffer.entries[1].path, 1, IndexOf(c.zipBuffer.entries[1].path, "/"))
    \o c.repoInfo.path \o <<"/">>
FetchedSubdirectory(p) ==
  LET c == calls[p]
  IN /\ c.kind = "github"
     /\ c.repoInfo.path # Undefined
     /\ c.zipBuffer.ok
     /\ c.pc # "parse"
     /\ Len(c.zipBuffer.entries) > 0
     /\ IndexOf(c.zipBuffer.entries[1].path, "/") > 1
     /\ HasKey(c.zipBuffer.entries, SubdirectoryFolder(c) \o S_SKILL_md)

\* C25: when the URL points at subdirectory S and the fetched archive has
\* '<folder>/S/SKILL.md', importFromGitHub goes on with the manifest and content of
\* that entry and with the resources under '<folder>/S/', not with another SKILL.md
\* of the archive.
C25_SubdirectoryAsHint ==
  \A p \in CallIds :
    FetchedSubdirectory(p) =>
      LET c == calls[p]
          doc == Lookup(c.zipBuffer.entries, SubdirectoryFolder(c) \o S_SKILL_md)
      IN /\ c.parsed.ok
         /\ c.parsed.manifest["name"] = doc.data["name"]
         /\ c.parsed.content = Trim(doc.body)
         /\ \A i \in 1..Len(c.parsed.resources) :
              HasKey(c.zipBuffer.entries,
                     SubdirectoryFolder(c) \o c.parsed.resources[i].path)


\* The steps a call of importFromGitHub may take from each position: resolving the
\* reference (the step that starts the call), fetching, parsing, storing the
\* resources one by one, persisting (identifier, lookup, then create or update).
GitHubSuccessors(pc) ==
  CASE pc = "idle" -> {"fetch", "failed"}
    [] pc = "fetch" -> {"parse", "failed"}
    [] pc = "parse" -> {"upload", "identify", "failed"}
    [] pc = "upload" -> {"fileRecord", "failed"}
    [] pc = "fileRecord" -> {"upload", "identify", "failed"}
    [] pc = "identify" -> {"find"}
    [] pc = "find" -> {"create", "update"}
    [] pc = "create" -> {"done", "failed"}
    [] pc = "update" -> {"done", "failed"}
    [] OTHER -> {}

\* Call p is, or in this step becomes, a call of importFromGitHub, and the step is
\* one of its own.
GitHubStep(p) == calls'[p].kind = "github" /\ calls'[p] # calls[p]

\* C26: a call of importFromGitHub resolves the reference, fetches, parses, stores
\* the resources and persists in that order, each step at most once; a failure ends
\* the call and no later step runs; the store of records is written only by the
\* create or update of a call whose parsing and resource storage succeeded, and a
\* call that ends in done has made exactly one create or one update.
C26_StepsInOrder ==
  [][\A p \in CallIds :
       GitHubStep(p) =>
         LET c == calls[p]
             d == calls'[p]
         IN /\ d.pc \in GitHubSuccessors(c.pc)
            /\ d.pc = "fetch" => d.repoInfo.ok
            /\ d.pc = "parse" => d.fetched = "ok"
            /\ d.pc \in {"upload", "identify"} /\ c.pc = "parse" => d.parsed.ok
            /\ c.pc = "fileRecord" /\ d.pc # "failed" => d.index = c.index + 1
            /\ d.pc = "identify" => Len(d.resourceIds) = d.uploads
            /\ d.creates + d.updates <= 1
            /\ d.pc = "done" =>
                 /\ d.creates + d.updates = 1
                 /\ d.parsed.ok
                 /\ d.uploads \in {0, Len(d.parsed.resources)}
                 /\ Len(d.resourceIds) = d.uploads
            /\ skills' # skills => d.pc = "done"
            /\ d.pc # "done" => d.creates = 0 /\ d.updates = 0]_vars

\* A call of importFromGitHub has ended in done after storing a resource and
\* creating a record, and another has failed at the fetch.
C26_Witness ==
  \E p, q \in CallIds :
    /\ calls[p].kind = "github"
    /\ calls[p].pc = "done"
    /\ calls[p].creates = 1
    /\ calls[p].uploads >= 1
    /\ calls[q].kind = "github"
    /\ calls[q].pc = "failed"
    /\ calls[q].fetched \in {"404", "500", "network"}
    /\ calls[q].creates = 0


\* Call p takes a step of storeResources: an upload or a file record settles.
StoreStep(p) == calls[p].pc \in {"upload", "fileRecord"} /\ calls'[p] # calls[p]

\* s is a prefix of t.
IsPrefix(s, t) == Len(s) <= Len(t) /\ SubSeq(t, 1, Len(s)) = s

\* C27: storeResources handles the resources one at a time in the order of the
\* mapping: the upload of a resource starts only when the file records of all
\* resources before it exist; when the upload or the file record of the k-th
\* resource fails, the error reaches the caller as it is, nothing is uploaded or
\* recorded for a later resource, and the uploads and file records of the
\* resources before it stay.
C27_SequentialNoRollback ==
  [][/\ objects \subseteq objects'
     /\ IsPrefix(fileRecords, fileRecords')
     /\ \A p \in CallIds :
          /\ calls'[p].pc = "upload" =>
               /\ Len(calls'[p].resourceIds) = calls'[p].index - 1
               /\ calls'[p].uploads = calls'[p].index - 1
               /\ \A i \in 1..Len(calls'[p].resourceIds) :
                    /\ calls'[p].resourceIds[i].path = calls'[p].parsed.resources[i].path
                    /\ calls'[p].resourceIds[i].id \in 1..Len(fileRecords')
          /\ StoreStep(p) =>
               LET c == calls[p]
                   d == calls'[p]
               IN /\ d.pc \in {"upload", "fileRecord", "identify", "failed"}
                  /\ d.pc = "failed" =>
                       /\ d.failure = [kind |-> "StorageError", code |-> "none"]
                       /\ d.resourceIds = c.resourceIds
                       /\ d.index = c.index
                       /\ objects' = objects
                       /\ fileRecords' = fileRecords
                  /\ d.pc # "failed" => d.index \in {c.index, c.index + 1}
          /\ (calls[p].pc = "failed" => calls'[p] = calls[p])]_vars

\* Storing the second resource of an archive has failed: the first resource is
\* uploaded and recorded, the second has no file record.
C27_Witness ==
  \E p \in CallIds :
    /\ calls[p].pc = "failed"
    /\ calls[p].failure.kind = "StorageError"
    /\ calls[p].index = 2
    /\ Len(calls[p].resourceIds) = 1
    /\ \E o \in objects :
         o.key = ResourceKey(calls[p].parsed.zipHash, calls[p].parsed.resources[1].path)
    /\ calls[p].resourceIds[1].id \in 1..Len(fileRecords)


\* An import of call p, from an uploaded archive or from a repository, has written
\* its record.
Imported(p) == calls[p].kind \in {"zip", "github"} /\ calls[p].pc = "done"

\* Name, content, resources and archive hash of the record an import wrote are the
\* parsed name, the trimmed body of the manifest document, the mapping
\* storeResources returned and the hash of the archive bytes.
ImportedFields(c) ==
  /\ c.returned.name = c.parsed.manifest["name"]
  /\ c.returned.content = c.parsed.content
  /\ \E i \in 1..Len(c.zipBuffer.entries) :
       /\ c.zipBuffer.entries[i].file.fm = "ok"
       /\ c.zipBuffer.entries[i].file.data["name"] = c.returned.name
       /\ c.returned.content = Trim(c.zipBuffer.entries[i].file.body)
  /\ c.returned.resources = c.resourceIds
  /\ Len(c.resourceIds) = Len(c.parsed.resources)
  /\ c.parsed.zipHash = Undefined => c.resourceIds = <<>> /\ c.uploads = 0
  /\ c.returned.zipFileHash = Sha256(c.zipBuffer.id)

\* C28: the record written by importFromZip and by importFromGitHub has the name and
\* the description of the parsed manifest, the trimmed body of the manifest
\* document as content, the mapping returned by storeResources as resources (empty,
\* with nothing stored, when there is no archive hash) and the hash of the archive
\* bytes as archive hash.
C28_ImportedRecordFields ==
  \A p \in CallIds :
    Imported(p) =>
      /\ ImportedFields(calls[p])
      /\ calls[p].returned.description = calls[p].parsed.manifest["description"]

\* What the code writes: all of these fields but the description, which is the
\* parsed name.
C28_DescriptionIsName ==
  \A p \in CallIds :
    Imported(p) =>
      /\ ImportedFields(calls[p])
      /\ calls[p].returned.description = calls[p].parsed.manifest["name"]


\* buildTree has run on the given paths.
Built == probe.fn = "buildTree" /\ probe.done

\* The parent path of a path with more than one segment.
ParentPath(path) == SubSeq(path, 1, LastIndexOf(path, "/") - 1)
IsNested(path) == \E i \in 1..Len(path) : path[i] = "/"

\* The proper prefixes of a path that end before a slash.
Prefixes(path) == {SubSeq(path, 1, i - 1) : i \in {j \in 1..Len(path) : path[j] = "/"}}

\* How often the node at path stands in a list of the tree: in the root list or
\* among the children of a node.
Occurrences(tree, path) ==
  Cardinality({i \in 1..Len(tree.root) : tree.root[i] = path})
    + Cardinality({pair \in (DOMAIN tree.nodes) \X (1..MaxPaths) :
         /\ tree.nodes[pair[1]].children # Undefined
         /\ pair[2] <= Len(tree.nodes[pair[1]].children)
         /\ tree.nodes[pair[1]].children[pair[2]] = path})

\* The node at path stands where its path says: in the root list when the path has
\* one segment, among the children of the node at its parent path otherwise.
StandsUnderParent(tree, path) ==
  IF IsNested(path)
  THEN /\ ParentPath(path) \in DOMAIN tree.nodes
       /\ tree.nodes[ParentPath(path)].children # Undefined
       /\ \E i \in 1..Len(tree.nodes[ParentPath(path)].children) :
            tree.nodes[ParentPath(path)].children[i] = path
  ELSE \E i \in 1..Len(tree.root) : tree.root[i] = path

WellFormedTree(paths, tree) ==
  LET given == {paths[i] : i \in 1..Len(paths)}
  IN /\ \A path \in given :
          /\ path \in DOMAIN tree.nodes
          /\ tree.nodes[path].type = "file"
          /\ tree.nodes[path].path = path
          /\ \A prefix \in Prefixes(path) :
               /\ prefix \in DOMAIN tree.nodes
               /\ tree.nodes[prefix].type = "directory"
     /\ \A n \in DOMAIN tree.nodes :
          /\ Occurrences(tree, n) = 1
          /\ StandsUnderParent(tree, n)
          /\ (tree.nodes[n].children # Undefined) <=> (tree.nodes[n].type = "directory")
          /\ n \in given \/ \E path \in given : n \in Prefixes(path)

\* C29: in the tree of buildTree every given path is a file node with that path,
\* standing exactly once; every prefix of a given path is a directory node,
\* standing exactly once; every node with a parent path is a child of the node at
\* that path; only directory nodes have children. This is claimed also for a given
\* path that is a prefix of another, as 'a' with 'a/b'.
C29_WellFormedTree ==
  Built => WellFormedTree(probe.paths, probe.tree)

\* The same for the sets of paths in which no path is a prefix of another.
C29_WellFormedTreeOfFiles ==
  (Built /\ \A i, j \in 1..Len(probe.paths) :
              probe.paths[i] \notin Prefixes(probe.paths[j]))
    => WellFormedTree(probe.paths, probe.tree)


\* Invocation t is the only one of its key that has been started.
AloneOnKey(inv, t) ==
  \A u \in ToolCallIds \ {t} : inv[u].pc = "idle" \/ inv[u].key # inv[t].key

\* C30: while an invokeBuiltinTool call of key K is in flight, builtinToolLoading[K]
\* is true; once it has settled the flag is false, and a call whose executor threw
\* has returned a result with success false instead of throwing; this holds for
\* every interleaving with invocations of other keys: a toggle of the flag of one
\* key leaves the flags of all other keys as they were.
C30_LoadingFlags ==
  [][/\ \A t \in ToolCallIds :
          (invocations'[t].kind = "invoke" /\ AloneOnKey(invocations', t)) =>
            /\ invocations'[t].pc = "running" =>
                 IsLoading(builtinToolLoading', invocations'[t].key)
            /\ invocations'[t].pc = "done" =>
                 /\ ~IsLoading(builtinToolLoading', invocations'[t].key)
                 /\ ~invocations'[t].threw
                 /\ invocations'[t].outcome = "threw" => ~invocations'[t].success
     /\ \A k \in ExecutorKeys :
          IsLoading(builtinToolLoading', k) # IsLoading(builtinToolLoading, k) =>
            \E t \in ToolCallIds :
              invocations'[t] # invocations[t] /\ invocations'[t].key = k]_vars

\* What holds in the code: the flag of the key toggled last is the one just set,
\* and a call never throws whatever its executor does.
C30_LastToggleOnly ==
  [][\A t \in ToolCallIds :
       invocations'[t] # invocations[t] /\ invocations'[t].kind = "invoke" =>
         /\ IsLoading(builtinToolLoading', invocations'[t].key)
              = (invocations'[t].pc = "running")
         /\ ~invocations'[t].threw
         /\ invocations'[t].outcome = "threw" => ~invocations'[t].success]_vars


====
